---------------------------- MODULE Spec2Model ----------------------------
(***************************************************************************)
(* Model of the tidewave WSGI core: the security-gated router              *)
(* (tidewave/middleware.py), the Flask header-rewriting adapter            *)
(* (tidewave/flask/__init__.py) and the parts of the MCP handler the       *)
(* router hands requests to (tidewave/mcp_handler.py).                     *)
(*                                                                         *)
(* A Python str is a sequence of one-character strings, so that prefix,    *)
(* suffix, case and regular-expression tests are computed as the code      *)
(* computes them.                                                          *)
(***************************************************************************)
EXTENDS Integers, Sequences, FiniteSets, TLC

VARIABLES
    config,        \* Middleware.config: the configuration dict
    environ,       \* the WSGI environ of the request being served
    pc,            \* "new" | "failed" | "idle" | "responded"
    status,        \* HTTP status given to start_response (0: none)
    body,          \* what the response body is (a tag naming the text)
    calls,         \* the handlers invoked for the request, in call order
    app_args,      \* the environs the wrapped application was called with
    started,       \* number of start_response calls reaching the server
    spawned,       \* child processes started for the request
    raised,        \* TRUE when an exception left the entry point
    host_headers,  \* the header list the host application passed
    resp_headers,  \* the header list the server's start_response received
    tool_functions, \* the functions MCPHandler was constructed with
    tools,         \* MCPHandler.tools: the registry, a dict by tool name
    tool_calls,    \* the tool functions called for the request, in order
    eval_pc,       \* project_eval: "idle" | "get" | "terminate" | "join"
                   \*   | "returned"
    eval_args,     \* project_eval: its timeout and json arguments
    process,       \* project_eval: the child process
    descendants,   \* processes the evaluated code started, still running
    queue,         \* project_eval: the outputs put and not yet taken
    eval_outcome,  \* project_eval: result, success, stdout, stderr, error
    eval_timed_out, \* project_eval: TRUE once queue.get raised Empty
    eval_response, \* what project_eval returned
    gen_pc,        \* _execute_command: "none" | "created" | "loop"
                   \*   | "read" | "poll"
                   \*   | "status" | "error" | "finished" | "closed"
    popen,         \* _execute_command: the process of the command
    pipe,          \* bytes the command wrote that were not yet read
    chunks,        \* the chunks the generator has yielded, in order
    gen_raised,    \* TRUE once the except branch of _execute_command ran
    csp_history    \* a header value and its successive modify_csp results

server_vars == <<config, environ, pc, status, body, calls, app_args, started,
                 spawned, raised, host_headers, resp_headers, tool_functions,
                 tools, tool_calls>>

eval_vars == <<eval_pc, eval_args, process, descendants, queue, eval_outcome,
               eval_timed_out, eval_response>>

stream_vars == <<gen_pc, popen, pipe, chunks, gen_raised>>

vars == <<server_vars, eval_vars, stream_vars, csp_history>>

---------------------------------------------------------------------------
(* Python str primitives *)

ASCII_UPPER ==
    <<"A", "B", "C", "D", "E", "F", "G", "H", "I", "J", "K", "L", "M",
      "N", "O", "P", "Q", "R", "S", "T", "U", "V", "W", "X", "Y", "Z">>
ASCII_LOWER ==
    <<"a", "b", "c", "d", "e", "f", "g", "h", "i", "j", "k", "l", "m",
      "n", "o", "p", "q", "r", "s", "t", "u", "v", "w", "x", "y", "z">>
ASCII_DIGITS == {"0", "1", "2", "3", "4", "5", "6", "7", "8", "9"}

Range(s) == {s[i] : i \in 1..Len(s)}

DIGITS == <<"0", "1", "2", "3", "4", "5", "6", "7", "8", "9">>

DigitValue(c) == (CHOOSE i \in 1..Len(DIGITS) : DIGITS[i] = c) - 1

LowerMap == [c \in Range(ASCII_UPPER) |->
                ASCII_LOWER[CHOOSE i \in 1..26 : ASCII_UPPER[i] = c]]
UpperMap == [c \in Range(ASCII_LOWER) |->
                ASCII_UPPER[CHOOSE i \in 1..26 : ASCII_LOWER[i] = c]]

\* str.lower()
lower(s) == [i \in 1..Len(s) |->
                IF s[i] \in DOMAIN LowerMap THEN LowerMap[s[i]] ELSE s[i]]
\* str.upper()
upper(s) == [i \in 1..Len(s) |->
                IF s[i] \in DOMAIN UpperMap THEN UpperMap[s[i]] ELSE s[i]]

\* str.startswith(p)
startswith(s, p) == Len(s) >= Len(p) /\ SubSeq(s, 1, Len(p)) = p
\* str.endswith(p)
endswith(s, p) ==
    Len(s) >= Len(p) /\ SubSeq(s, Len(s) - Len(p) + 1, Len(s)) = p

\* s[n:]
slice_from(s, n) == SubSeq(s, n + 1, Len(s))

\* str.find(c): the 1-based index of the first c in s, 0 when there is none
find(s, c) ==
    IF \E i \in 1..Len(s) : s[i] = c
    THEN CHOOSE i \in 1..Len(s) :
            s[i] = c /\ \A j \in 1..(i - 1) : s[j] # c
    ELSE 0

\* str.rfind(c): the 1-based index of the last c in s, 0 when there is none
rfind(s, c) ==
    IF \E i \in 1..Len(s) : s[i] = c
    THEN CHOOSE i \in 1..Len(s) :
            s[i] = c /\ \A j \in (i + 1)..Len(s) : s[j] # c
    ELSE 0

---------------------------------------------------------------------------
(* Literals of tidewave/middleware.py *)

\* "/tidewave"
TIDEWAVE_PREFIX ==
    <<"/", "t", "i", "d", "e", "w", "a", "v", "e">>
\* "/tidewave/config"
ROUTE_CONFIG ==
    <<"/", "t", "i", "d", "e", "w", "a", "v", "e",
      "/", "c", "o", "n", "f", "i", "g">>
\* "/tidewave/mcp"
ROUTE_MCP ==
    <<"/", "t", "i", "d", "e", "w", "a", "v", "e", "/", "m", "c", "p">>
\* "/tidewave/shell"
ROUTE_SHELL ==
    <<"/", "t", "i", "d", "e", "w", "a", "v", "e",
      "/", "s", "h", "e", "l", "l">>
\* "GET"
METHOD_GET == <<"G", "E", "T">>
\* "POST"
METHOD_POST == <<"P", "O", "S", "T">>
\* "127.0.0." : the literal part of the pattern ^127\.0\.0\.\d{1,3}$
LOOPBACK_V4_PREFIX ==
    <<"1", "2", "7", ".", "0", ".", "0", ".">>
\* "::1"
LOOPBACK_V6 == <<":", ":", "1">>
\* "::ffff:127.0.0.1"
LOOPBACK_V4_MAPPED ==
    <<":", ":", "f", "f", "f", "f", ":",
      "1", "2", "7", ".", "0", ".", "0", ".", "1">>
\* [".localhost", "127.0.0.1", "::1"]
DEFAULT_ALLOWED_ORIGINS ==
    << <<".", "l", "o", "c", "a", "l", "h", "o", "s", "t">>,
       <<"1", "2", "7", ".", "0", ".", "0", ".", "1">>,
       <<":", ":", "1">> >>

HTTP_OK == 200
HTTP_ACCEPTED == 202
HTTP_BAD_REQUEST == 400
HTTP_FORBIDDEN == 403
HTTP_METHOD_NOT_ALLOWED == 405

---------------------------------------------------------------------------
(* Middleware._validate_ip *)

\* re.match(r"^127\.0\.0\.\d{1,3}$", ip_str): "$" also matches just before
\* one trailing newline.
re_match_loopback_v4(ip_str) ==
    /\ startswith(ip_str, LOOPBACK_V4_PREFIX)
    /\ LET rest == slice_from(ip_str, Len(LOOPBACK_V4_PREFIX))
           digits == IF Len(rest) > 0 /\ rest[Len(rest)] = "\n"
                     THEN SubSeq(rest, 1, Len(rest) - 1)
                     ELSE rest
       IN  /\ Len(digits) \in 1..3
           /\ \A i \in 1..Len(digits) : digits[i] \in ASCII_DIGITS

_validate_ip(cfg, ip_str) ==
    IF cfg.allow_remote_access THEN TRUE
    ELSE IF re_match_loopback_v4(ip_str) THEN TRUE
    ELSE IF ip_str = LOOPBACK_V6 THEN TRUE
    ELSE IF ip_str = LOOPBACK_V4_MAPPED THEN TRUE
    ELSE FALSE

---------------------------------------------------------------------------
(* Middleware._validate_allowed_origin *)

\* self.config.get("allowed_origins", [".localhost", "127.0.0.1", "::1"])
config_allowed_origins(cfg) ==
    IF cfg.has_allowed_origins THEN cfg.allowed_origins
    ELSE DEFAULT_ALLOWED_ORIGINS

\* origin_pattern_matches with the subdomain test made on the bare domain,
\* without the "." boundary
origin_pattern_matches_no_boundary(host, allowed0) ==
    LET allowed == lower(allowed0) IN
    \/ allowed = <<"*">>
    \/ host = allowed
    \/ /\ startswith(allowed, <<".">>)
       /\ endswith(host, slice_from(allowed, 1))

\* one pass of the loop body, for the pattern `allowed`
origin_pattern_matches(host, allowed0) ==
    LET allowed == lower(allowed0) IN
    \/ allowed = <<"*">>
    \/ host = allowed
    \/ /\ startswith(allowed, <<".">>)
       /\ LET domain == slice_from(allowed, 1) IN
          \/ host = domain
          \/ endswith(host, <<".">> \o domain)

_validate_allowed_origin(cfg, host) ==
    LET allowed_origins == config_allowed_origins(cfg) IN
    IF Len(allowed_origins) = 0 THEN FALSE
    ELSE \E i \in 1..Len(allowed_origins) :
            origin_pattern_matches(host, allowed_origins[i])

---------------------------------------------------------------------------
(* urlparse(origin).hostname, as Middleware._check_security uses it *)

\* urllib.parse.scheme_chars
SCHEME_CHARS ==
    Range(ASCII_LOWER) \cup Range(ASCII_UPPER) \cup ASCII_DIGITS
        \cup {"+", "-", "."}

\* str.lstrip(" ")
RECURSIVE lstrip(_)
lstrip(s) ==
    IF Len(s) > 0 /\ s[1] = " " THEN lstrip(Tail(s)) ELSE s

\* urlsplit: drop "<scheme>:" when the text before the first ":" is a scheme
url_without_scheme(url) ==
    LET i == find(url, ":") IN
    IF /\ i > 1
       /\ url[1] \in Range(ASCII_LOWER) \cup Range(ASCII_UPPER)
       /\ \A j \in 1..(i - 1) : url[j] \in SCHEME_CHARS
    THEN slice_from(url, i)
    ELSE url

\* urlsplit/_splitnetloc: the text between "//" and the first of "/", "?",
\* "#"; the empty string when the url does not start with "//"
url_netloc(url) ==
    IF startswith(url, <<"/", "/">>)
    THEN LET rest == slice_from(url, 2)
             stops == {i \in 1..Len(rest) : rest[i] \in {"/", "?", "#"}}
             delim == IF stops = {} THEN Len(rest) + 1
                      ELSE CHOOSE i \in stops : \A j \in stops : i <= j
         IN  SubSeq(rest, 1, delim - 1)
    ELSE <<>>

\* urlsplit raises ValueError("Invalid IPv6 URL") on an unbalanced bracket
netloc_raises(netloc) ==
    \/ "[" \in Range(netloc) /\ "]" \notin Range(netloc)
    \/ "]" \in Range(netloc) /\ "[" \notin Range(netloc)

\* _NetlocResultMixinStr._hostinfo[0]
netloc_hostinfo_host(netloc) ==
    LET at == rfind(netloc, "@")
        hostinfo == slice_from(netloc, at)
        open == find(hostinfo, "[")
    IN  IF open > 0
        THEN LET bracketed == slice_from(hostinfo, open)
                 close == find(bracketed, "]")
             IN  IF close > 0 THEN SubSeq(bracketed, 1, close - 1)
                 ELSE bracketed
        ELSE LET colon == find(hostinfo, ":")
             IN  IF colon > 0 THEN SubSeq(hostinfo, 1, colon - 1)
                 ELSE hostinfo

\* urlparse(origin).hostname: "raise" (ValueError), "none" (None) or
\* "host" with the host name, lower-cased up to a "%" zone separator
urlparse_hostname(origin) ==
    LET url == url_without_scheme(lstrip(origin))
        netloc == url_netloc(url)
        h == netloc_hostinfo_host(netloc)
        pct == find(h, "%")
    IN  IF netloc_raises(netloc)
        THEN [kind |-> "raise", hostname |-> <<>>]
        ELSE IF Len(h) = 0
        THEN [kind |-> "none", hostname |-> <<>>]
        ELSE [kind |-> "host",
              hostname |-> IF pct > 0
                           THEN lower(SubSeq(h, 1, pct - 1))
                                    \o SubSeq(h, pct, Len(h))
                           ELSE lower(h)]

---------------------------------------------------------------------------
(* Middleware._check_security *)

\* _check_security with the origin validated even when the header is
\* missing (the missing header read as an empty host)
_check_security_origin_required(cfg, env) ==
    IF ~_validate_ip(cfg, env.REMOTE_ADDR) THEN "remote"
    ELSE LET parsed == urlparse_hostname(env.HTTP_ORIGIN) IN
         IF parsed.kind = "raise" THEN "raise"
         ELSE IF env.has_origin /\ parsed.kind = "none" THEN "malformed"
         ELSE IF ~_validate_allowed_origin(cfg, lower(parsed.hostname))
         THEN "not_allowed"
         ELSE "none"

\* The returned message, by its kind: "none" (None), "remote" (remote
\* connections are not accepted), "malformed" (the origin header appears
\* to be malformed), "not_allowed" (origin host not allowed); "raise" when
\* urlparse raised and nothing was returned.
_check_security(cfg, env) ==
    IF ~_validate_ip(cfg, env.REMOTE_ADDR) THEN "remote"
    ELSE IF env.has_origin /\ Len(env.HTTP_ORIGIN) > 0
    THEN LET parsed == urlparse_hostname(env.HTTP_ORIGIN) IN
         IF parsed.kind = "raise" THEN "raise"
         ELSE IF parsed.kind = "none" THEN "malformed"
         ELSE IF ~_validate_allowed_origin(cfg, lower(parsed.hostname))
         THEN "not_allowed"
         ELSE "none"
    ELSE "none"

---------------------------------------------------------------------------
(* modify_csp *)

\* "script-src"
SCRIPT_SRC ==
    <<"s", "c", "r", "i", "p", "t", "-", "s", "r", "c">>
\* "frame-ancestors"
FRAME_ANCESTORS ==
    <<"f", "r", "a", "m", "e", "-",
      "a", "n", "c", "e", "s", "t", "o", "r", "s">>
\* "'unsafe-eval'"
UNSAFE_EVAL ==
    <<"'", "u", "n", "s", "a", "f", "e", "-", "e", "v", "a", "l", "'">>

\* the characters str.strip() and str.split() treat as whitespace
WHITESPACE == {" ", "\t", "\n", "\r"}

\* str.split(sep) for a one-character separator
RECURSIVE split(_, _)
split(s, sep) ==
    LET i == find(s, sep) IN
    IF i = 0 THEN <<s>>
    ELSE <<SubSeq(s, 1, i - 1)>> \o split(slice_from(s, i), sep)

\* str.strip()
strip(s) ==
    LET keep == {i \in 1..Len(s) : s[i] \notin WHITESPACE} IN
    IF keep = {} THEN <<>>
    ELSE SubSeq(s, CHOOSE i \in keep : \A j \in keep : i <= j,
                   CHOOSE i \in keep : \A j \in keep : i >= j)

\* str.split(): the maximal runs of non-whitespace characters
RECURSIVE split_whitespace(_)
split_whitespace(s) ==
    LET t == strip(s)
        ws == {i \in 1..Len(t) : t[i] \in WHITESPACE}
    IN  IF Len(t) = 0 THEN <<>>
        ELSE IF ws = {} THEN <<t>>
        ELSE LET i == CHOOSE k \in ws : \A j \in ws : k <= j
             IN  <<SubSeq(t, 1, i - 1)>> \o split_whitespace(slice_from(t, i))

\* sep.join(items)
RECURSIVE join(_, _)
join(items, sep) ==
    IF Len(items) = 0 THEN <<>>
    ELSE IF Len(items) = 1 THEN items[1]
    ELSE items[1] \o sep \o join(Tail(items), sep)

\* the number the decimal digits spell
RECURSIVE digits_value(_)
digits_value(s) ==
    IF Len(s) = 0 THEN 0
    ELSE 10 * digits_value(SubSeq(s, 1, Len(s) - 1)) + DigitValue(s[Len(s)])

\* int(s) for a str s: surrounding whitespace is dropped, a sign may come
\* first, and what is left must be decimal digits; anything else, the
\* empty string included, raises ValueError
int(s) ==
    LET t == strip(s)
        signed == Len(t) > 0 /\ t[1] \in {"+", "-"}
        digits == IF signed THEN Tail(t) ELSE t
    IN  IF Len(digits) = 0 \/ \E i \in 1..Len(digits) :
                                  digits[i] \notin ASCII_DIGITS
        THEN [raised |-> TRUE, value |-> 0]
        ELSE [raised |-> FALSE,
              value |-> IF signed /\ t[1] = "-" THEN 0 - digits_value(digits)
                        ELSE digits_value(digits)]

\* str(n) for a natural number n
RECURSIVE str(_)
str(n) ==
    IF n < 10 THEN <<DIGITS[n + 1]>>
    ELSE str(n \div 10) \o <<DIGITS[(n % 10) + 1]>>

\* A dict is the sequence of its items [k, v] in insertion order.
dict_has(d, k) == \E i \in 1..Len(d) : d[i].k = k
\* d.get(k, default)
dict_get(d, k, default) ==
    IF dict_has(d, k) THEN d[CHOOSE i \in 1..Len(d) : d[i].k = k].v
    ELSE default
\* d[k] = v: an existing key keeps its place
dict_set(d, k, v) ==
    IF dict_has(d, k)
    THEN [i \in 1..Len(d) |-> IF d[i].k = k THEN [k |-> k, v |-> v] ELSE d[i]]
    ELSE Append(d, [k |-> k, v |-> v])
\* del d[k]
dict_del(d, k) == SelectSeq(d, LAMBDA item : item.k # k)

\* [part.strip() for part in csp_value.split(";") if part.strip()]
csp_parts(csp_value) ==
    LET raw == split(csp_value, ";")
        stripped == [i \in 1..Len(raw) |-> strip(raw[i])]
    IN  SelectSeq(stripped, LAMBDA part : Len(part) > 0)

\* the loop filling `directives` from the parts
RECURSIVE csp_directives(_, _)
csp_directives(parts, directives) ==
    IF Len(parts) = 0 THEN directives
    ELSE LET part == Head(parts)
             sp == find(part, " ")
         IN  csp_directives(
                Tail(parts),
                IF sp > 0
                THEN dict_set(directives, lower(SubSeq(part, 1, sp - 1)),
                              strip(slice_from(part, sp)))
                ELSE dict_set(directives, lower(part), <<>>))

\* the script-src step without the test for an 'unsafe-eval' already there
csp_with_unsafe_eval_always_appended(directives) ==
    LET script_src == dict_get(directives, SCRIPT_SRC, <<>>) IN
    IF Len(script_src) > 0
    THEN dict_set(directives, SCRIPT_SRC,
                  join(split_whitespace(script_src), <<" ">>)
                      \o <<" ">> \o UNSAFE_EVAL)
    ELSE dict_set(directives, SCRIPT_SRC, UNSAFE_EVAL)

\* the script-src step
csp_with_unsafe_eval(directives) ==
    LET script_src == dict_get(directives, SCRIPT_SRC, <<>>) IN
    IF Len(script_src) > 0
    THEN LET script_sources == split_whitespace(script_src) IN
         IF \A i \in 1..Len(script_sources) : script_sources[i] # UNSAFE_EVAL
         THEN dict_set(directives, SCRIPT_SRC,
                       join(script_sources, <<" ">>) \o <<" ">> \o UNSAFE_EVAL)
         ELSE directives
    ELSE dict_set(directives, SCRIPT_SRC, UNSAFE_EVAL)

\* the rebuilt list csp_parts of the final loop
csp_rebuild(directives) ==
    LET kept == SelectSeq(directives, LAMBDA item : item.k # FRAME_ANCESTORS)
    IN  [i \in 1..Len(kept) |->
            IF Len(kept[i].v) > 0 THEN kept[i].k \o <<" ">> \o kept[i].v
            ELSE kept[i].k]

modify_csp(csp_value) ==
    join(csp_rebuild(csp_with_unsafe_eval(
            csp_directives(csp_parts(csp_value), <<>>))), <<";", " ">>)

---------------------------------------------------------------------------
(* Responses.  A response is what one call of the WSGI entry point did:    *)
(* the status and headers it gave to start_response, the body it returned, *)
(* the handlers it invoked, the environs it passed to the wrapped          *)
(* application, and the child processes started when the body is drained.  *)

\* the "result" member of a JSON-RPC body: which result it is ("none" for
\* a body without one), and the members that result has
Result(tag, protocolVersion, tool_list, content, isError) ==
    [tag |-> tag, protocolVersion |-> protocolVersion,
     capabilities |-> IF tag = "initialize"
                      THEN "tools.listChanged: false" ELSE "",
     serverInfo |-> IF tag = "initialize"
                    THEN "Python MCP Server 1.0.0" ELSE "",
     tools |-> tool_list, content |-> content, isError |-> isError]

NoResult == Result("none", <<>>, <<>>, <<>>, FALSE)

\* a response body: its kind, the text that identifies it, a JSON-RPC
\* error code when it carries one (0 otherwise), and for a JSON-RPC body
\* its id and result members (id "" for a body that has no id member)
Body(kind, text, code) ==
    [kind |-> kind, text |-> text, code |-> code, id |-> "",
     result |-> NoResult]

NoBody == Body("none", "", 0)

Response(st, b, called) ==
    [status |-> st, body |-> b, calls |-> called, app_args |-> <<>>,
     started |-> 1, spawned |-> 0, raised |-> FALSE, headers |-> <<>>,
     tool_calls |-> <<>>]

\* an exception leaving the entry point: start_response was never called
Raised(called) ==
    [status |-> 0, body |-> NoBody, calls |-> called, app_args |-> <<>>,
     started |-> 0, spawned |-> 0, raised |-> TRUE, headers |-> <<>>,
     tool_calls |-> <<>>]

\* Middleware._send_error_response(start_response, status, message):
\* message "" stands for None, answered with the status phrase
_send_error_response(st, message, called) ==
    Response(st,
             Body("text",
                  IF message # "" THEN message
                  ELSE IF st = HTTP_METHOD_NOT_ALLOWED
                       THEN "Method Not Allowed"
                  ELSE IF st = HTTP_FORBIDDEN THEN "Forbidden"
                  ELSE "Bad Request",
                  0),
             called)

\* Middleware._handle_home_route
_handle_home_route(cfg) ==
    Response(HTTP_OK, Body("html", "tidewave:config", 0),
             <<"_handle_home_route">>)

\* Middleware._handle_config_route
_handle_config_route(cfg) ==
    Response(HTTP_OK, Body("json", "config", 0),
             <<"_handle_config_route">>)

---------------------------------------------------------------------------
(* JSON values, as far as the handlers tell them apart: the JSON type of   *)
(* the value ("null", "number", "string", "array", "object"), its text,    *)
(* for a string whether it spells a number, and for an object its members  *)
(* as a dict.  The numbers are integers.                                   *)

JsonValue(t, v, numeric, members) ==
    [t |-> t, v |-> v, numeric |-> numeric, members |-> members]

JSON_NULL == JsonValue("null", "null", FALSE, <<>>)

JsonNumber(v) == JsonValue("number", v, TRUE, <<>>)

JsonString(v, numeric) == JsonValue("string", v, numeric, <<>>)

JSON_ARRAY == JsonValue("array", "[]", FALSE, <<>>)

JsonObject(members) == JsonValue("object", "{}", FALSE, members)

---------------------------------------------------------------------------
(* tidewave/tools/base.py: MCPTool.  A tool function is its signature and  *)
(* what calling it does: its name, the first line of its docstring ("" for *)
(* a function without one), its parameters in declaration order and        *)
(* whether its body raises.                                                *)

POSITIONAL_OR_KEYWORD == "POSITIONAL_OR_KEYWORD"
KEYWORD_ONLY == "KEYWORD_ONLY"

\* inspect.Parameter together with the function's type hint for it: the
\* annotation "" stands for a parameter without a type hint, and
\* has_default FALSE for a default of inspect.Parameter.empty
Parameter(name, kind, annotation, has_default, default) ==
    [name |-> name, kind |-> kind, annotation |-> annotation,
     has_default |-> has_default, default |-> default]

Function(name, doc, parameters, raises) ==
    [name |-> name, doc |-> doc, parameters |-> parameters,
     raises |-> raises]

\* reserved_names in _create_model
reserved_names == {"json"}

\* MCPTool._get_description
_get_description(func) ==
    IF func.doc # "" THEN [docstring |-> TRUE, text |-> func.doc]
    ELSE [docstring |-> FALSE, text |-> func.name]

\* the pydantic field _create_model declares for one parameter
model_field(param) ==
    [field_name |-> IF param.name \in reserved_names
                    THEN "alias_" \o param.name ELSE param.name,
     alias |-> param.name,
     type |-> param.annotation,
     required |-> ~param.has_default,
     default |-> param.default]

\* the first parameter, at or after position i, on which _create_model
\* raises ValueError; 0 when there is none
RECURSIVE first_rejected_parameter(_, _)
first_rejected_parameter(parameters, i) ==
    IF i > Len(parameters) THEN 0
    ELSE LET param == parameters[i] IN
         IF param.kind = KEYWORD_ONLY /\ ~param.has_default THEN i
         ELSE IF param.annotation = "" THEN i
         ELSE first_rejected_parameter(parameters, i + 1)

\* _create_model accepting every parameter
_create_model_every_parameter(func) ==
    [raised |-> FALSE,
     fields |-> [i \in 1..Len(func.parameters)
                    |-> model_field(func.parameters[i])]]

\* MCPTool._create_model: the fields of the pydantic model, or raised
_create_model(func) ==
    IF first_rejected_parameter(func.parameters, 1) # 0
    THEN [raised |-> TRUE, fields |-> <<>>]
    ELSE [raised |-> FALSE,
          fields |-> [i \in 1..Len(func.parameters)
                         |-> model_field(func.parameters[i])]]

\* model.model_json_schema()["properties"]: the property names, which are
\* the fields' aliases
model_json_schema_properties(model) ==
    [i \in 1..Len(model.fields) |-> model.fields[i].alias]

\* _generate_schema taking every property of the model's schema
_generate_schema_every_property(func, model) ==
    LET schema_properties == model_json_schema_properties(model)
        required_fields ==
            SelectSeq(func.parameters, LAMBDA param : ~param.has_default)
        filtered_properties ==
            SelectSeq(func.parameters,
                      LAMBDA param : \E i \in 1..Len(schema_properties) :
                                        schema_properties[i] = param.name)
    IN  [type |-> "object",
         properties |-> [i \in 1..Len(filtered_properties)
                            |-> [name |-> filtered_properties[i].name,
                                 type |-> filtered_properties[i].annotation]],
         required |-> [i \in 1..Len(required_fields)
                          |-> required_fields[i].name]]

\* MCPTool._generate_schema
_generate_schema(func, model) ==
    LET schema_properties == model_json_schema_properties(model)
        visible == SelectSeq(func.parameters,
                             LAMBDA param : param.kind # KEYWORD_ONLY)
        required_fields ==
            SelectSeq(visible, LAMBDA param : ~param.has_default)
        filtered_properties ==
            SelectSeq(visible,
                      LAMBDA param : \E i \in 1..Len(schema_properties) :
                                        schema_properties[i] = param.name)
    IN  [type |-> "object",
         properties |-> [i \in 1..Len(filtered_properties)
                            |-> [name |-> filtered_properties[i].name,
                                 type |-> filtered_properties[i].annotation]],
         required |-> [i \in 1..Len(required_fields)
                          |-> required_fields[i].name]]

\* MCPTool.__init__
MCPTool(func) ==
    LET model == _create_model(func) IN
    IF model.raised
    THEN [raised |-> TRUE, func |-> func, name |-> func.name,
          description |-> _get_description(func), model |-> model,
          input_schema |-> [type |-> "object", properties |-> <<>>,
                            required |-> <<>>]]
    ELSE [raised |-> FALSE, func |-> func, name |-> func.name,
          description |-> _get_description(func), model |-> model,
          input_schema |-> _generate_schema(func, model)]

\* whether pydantic accepts the JSON value for a field of the given type
\* (its default, lax, mode): numbers and numeric strings for int and float,
\* strings only for str, null for the Optional types
convertible(type, value) ==
    IF type \in {"int", "float"}
    THEN value.t = "number" \/ (value.t = "string" /\ value.numeric)
    ELSE IF type = "str" THEN value.t = "string"
    ELSE IF type = "bool" THEN value.t = "boolean"
    ELSE IF type = "Optional[str]" THEN value.t \in {"null", "string"}
    ELSE IF type = "Optional[list[Any]]" THEN value.t \in {"null", "array"}
    ELSE FALSE

\* self.model(**args) for a dict args: TRUE when pydantic raises
\* ValidationError.  Keys that name no field are ignored.
validation_fails(model, args) ==
    \E i \in 1..Len(model.fields) :
        LET field == model.fields[i] IN
        IF dict_has(args, field.alias)
        THEN ~convertible(field.type, dict_get(args, field.alias, JSON_NULL))
        ELSE field.required

\* the value pydantic stores for a convertible argument: a numeric string
\* given for an int or a float becomes the number
converted(type, value) ==
    IF type \in {"int", "float"} /\ value.t = "string"
    THEN JsonNumber(value.v)
    ELSE value

\* a dump that keeps the default of every field that has one
model_dump_defaults_kept(model, args) ==
    [i \in 1..Len(model.fields) |->
        LET field == model.fields[i] IN
        [name |-> field.alias,
         value |-> IF dict_has(args, field.alias) /\ field.required
                   THEN converted(field.type,
                                  dict_get(args, field.alias, field.default))
                   ELSE field.default]]

\* validated_args.model_dump(by_alias=True): every field of the model under
\* its alias, with the client's value, converted, when it gave one and the
\* default otherwise
model_dump(model, args) ==
    [i \in 1..Len(model.fields) |->
        LET field == model.fields[i] IN
        [name |-> field.alias,
         value |-> IF dict_has(args, field.alias)
                   THEN converted(field.type,
                                  dict_get(args, field.alias, field.default))
                   ELSE field.default]]

\* validate_and_call reporting an exception of the function as its result
validate_and_call_exception_as_text(tool, arguments) ==
    IF arguments.t # "object"
    THEN [error |-> "Error executing", content |-> <<>>, called |-> <<>>]
    ELSE IF validation_fails(tool.model, arguments.members)
    THEN [error |-> "Invalid arguments", content |-> <<>>, called |-> <<>>]
    ELSE LET dumped_args == model_dump(tool.model, arguments.members)
             call == [name |-> tool.name, kwargs |-> dumped_args]
         IN  IF tool.func.raises
             THEN [error |-> "", content |-> <<call>>, called |-> <<call>>]
             ELSE [error |-> "", content |-> <<call>>, called |-> <<call>>]


\* MCPTool.validate_and_call: the dict it returns (error "" when the dict
\* has no "error" key) and the calls of self.func it made
validate_and_call(tool, arguments) ==
    IF arguments.t # "object"
    THEN [error |-> "Error executing", content |-> <<>>, called |-> <<>>]
    ELSE IF validation_fails(tool.model, arguments.members)
    THEN [error |-> "Invalid arguments", content |-> <<>>, called |-> <<>>]
    ELSE LET dumped_args == model_dump(tool.model, arguments.members)
             call == [name |-> tool.name, kwargs |-> dumped_args]
         IN  IF tool.func.raises
             THEN [error |-> "Error executing", content |-> <<>>,
                   called |-> <<call>>]
             ELSE [error |-> "", content |-> <<call>>, called |-> <<call>>]

---------------------------------------------------------------------------
(* Request bodies.  A body is a document: its length in bytes, whether it  *)
(* decodes as JSON, whether the JSON value is an object, and the members   *)
(* of that object the handlers read.  An id is the JSON text of its value, *)
(* "null" for the null id.                                                 *)

\* the "params" member: kind "absent", "object" or "array", and for an
\* object the members _handle_initialize and _handle_call_tool read; a
\* protocolVersion or a name is a JSON string unless its type says "int"
\* (a number other than 0) or "list" (an array that is not empty)
Params(kind, has_protocolVersion, protocolVersion, has_name, name, has_arguments, arguments) ==
    [kind |-> kind,
     has_protocolVersion |-> has_protocolVersion,
     protocolVersion |-> protocolVersion,
     protocolVersion_type |-> "str",
     has_name |-> has_name, name |-> name, name_type |-> "str",
     has_arguments |-> has_arguments, arguments |-> arguments]

NoParams == Params("absent", FALSE, <<>>, FALSE, "", FALSE, JSON_NULL)

Document(len, is_json, is_object, jsonrpc, has_id, has_method, method, has_result, command) ==
    [len |-> len, is_json |-> is_json, is_object |-> is_object,
     jsonrpc |-> jsonrpc, has_id |-> has_id, has_method |-> has_method,
     method |-> method, has_result |-> has_result, command |-> command,
     id |-> "null", params |-> NoParams]

---------------------------------------------------------------------------
(* MCPHandler *)

\* MCPHandler.PROTOCOL_VERSION = "2025-03-26"
PROTOCOL_VERSION == <<"2", "0", "2", "5", "-", "0", "3", "-", "2", "6">>

JSONRPC_PARSE_ERROR == -32700
JSONRPC_INVALID_REQUEST == -32600
JSONRPC_METHOD_NOT_FOUND == -32601
JSONRPC_INVALID_PARAMS == -32602
JSONRPC_INTERNAL_ERROR == -32603

\* the ASCII characters from "-" (45) to "9" (57), in code point order
ASCII_45_57 ==
    <<"-", ".", "/", "0", "1", "2", "3", "4", "5", "6", "7", "8", "9">>

\* the position of c in the sequence of characters
index_of(chars, c) == CHOOSE i \in 1..Len(chars) : chars[i] = c

\* ord(c), for the characters version strings are written with
ord(c) ==
    IF c \in Range(ASCII_LOWER) THEN 96 + index_of(ASCII_LOWER, c)
    ELSE IF c \in Range(ASCII_UPPER) THEN 64 + index_of(ASCII_UPPER, c)
    ELSE 44 + index_of(ASCII_45_57, c)

\* a < b for two str: the comparison of the code points at the first
\* position where they differ, a proper prefix being the smaller
RECURSIVE str_lt(_, _)
str_lt(a, b) ==
    IF Len(b) = 0 THEN FALSE
    ELSE IF Len(a) = 0 THEN TRUE
    ELSE IF a[1] # b[1] THEN ord(a[1]) < ord(b[1])
    ELSE str_lt(Tail(a), Tail(b))

\* a JSON-RPC body {"jsonrpc": "2.0", "id": ..., "result" or "error": ...}
JsonRpcBody(kind, request_id, text, code, result) ==
    [Body(kind, text, code) EXCEPT !.id = request_id, !.result = result]

\* MCPHandler._create_error_response
_create_error_response(request_id, code, message) ==
    JsonRpcBody("jsonrpc_error", request_id, message, code, NoResult)

\* MCPHandler._send_jsonrpc_error: handle_request passes None as the id
_send_jsonrpc_error(code, message) ==
    Response(HTTP_OK,
             JsonRpcBody("jsonrpc_error", "null", message, code, NoResult),
             <<"handle_request">>)

\* a construction in which a name that is taken keeps its first tool
RECURSIVE _init_tools_first_kept(_, _)
_init_tools_first_kept(functions, registry) ==
    IF Len(functions) = 0 THEN [raised |-> FALSE, tools |-> registry]
    ELSE LET tool == MCPTool(functions[1]) IN
         IF tool.raised THEN [raised |-> TRUE, tools |-> <<>>]
         ELSE IF dict_has(registry, tool.name)
         THEN _init_tools_first_kept(Tail(functions), registry)
         ELSE _init_tools_first_kept(
                  Tail(functions),
                  dict_set(registry, tool.name,
                           [name |-> tool.name,
                            description |-> tool.description,
                            inputSchema |-> tool.input_schema,
                            tool_instance |-> tool]))

\* MCPHandler._init_tools: the registry self.tools, a dict from a tool's
\* name to its entry, or raised when MCPTool(func) raises for a function
RECURSIVE _init_tools(_, _)
_init_tools(functions, registry) ==
    IF Len(functions) = 0 THEN [raised |-> FALSE, tools |-> registry]
    ELSE LET tool == MCPTool(functions[1]) IN
         IF tool.raised THEN [raised |-> TRUE, tools |-> <<>>]
         ELSE _init_tools(Tail(functions),
                          dict_set(registry, tool.name,
                                   [name |-> tool.name,
                                    description |-> tool.description,
                                    inputSchema |-> tool.input_schema,
                                    tool_instance |-> tool]))

\* MCPHandler._get_tool_list; the descriptions were stripped by
\* _get_description, so that strip() leaves them as they are
_get_tool_list(registry) ==
    [i \in 1..Len(registry) |->
        [name |-> registry[i].v.name,
         description |-> registry[i].v.description,
         inputSchema |-> registry[i].v.inputSchema]]

\* MCPHandler._validate_jsonrpc_message: "" stands for None
_validate_jsonrpc_message(message) ==
    IF ~message.is_object THEN "Message must be a JSON object"
    ELSE IF message.jsonrpc # "2.0" THEN "Invalid JSON-RPC version"
    ELSE IF message.has_method /\ message.has_id THEN ""
    ELSE IF message.has_method /\ ~message.has_id THEN ""
    ELSE IF message.has_id /\ message.has_result THEN ""
    ELSE "Invalid JSON-RPC message structure"

\* what a method handler hands back: the body it returns (kind "none" for
\* None), whether it raised instead, and the tool functions it called
Handled(response, called) ==
    [raised |-> FALSE, response |-> response, tool_calls |-> called]

HandlerRaised == [raised |-> TRUE, response |-> NoBody, tool_calls |-> <<>>]

\* _handle_ping answering without the request's id
_handle_ping_without_id(request_id) ==
    Handled(JsonRpcBody("jsonrpc_result", "null", "", 0,
                        Result("empty", <<>>, <<>>, <<>>, FALSE)),
            <<>>)

\* MCPHandler._handle_ping
_handle_ping(request_id) ==
    Handled(JsonRpcBody("jsonrpc_result", request_id, "", 0,
                        Result("empty", <<>>, <<>>, <<>>, FALSE)),
            <<>>)

\* _handle_initialize answering with the version the client asked for
_handle_initialize_client_version(registry, request_id, params) ==
    IF params.kind = "array" THEN HandlerRaised
    ELSE LET has_version == params.kind = "object"
                            /\ params.has_protocolVersion
             client_version == params.protocolVersion
         IN  IF ~has_version \/ Len(client_version) = 0
             THEN Handled(_create_error_response(
                              request_id, JSONRPC_INVALID_PARAMS,
                              "Protocol version is required"), <<>>)
             ELSE IF params.protocolVersion_type # "str" THEN HandlerRaised
             ELSE IF str_lt(client_version, PROTOCOL_VERSION)
             THEN Handled(_create_error_response(
                              request_id, JSONRPC_INVALID_PARAMS,
                              "Unsupported protocol version"), <<>>)
             ELSE Handled(JsonRpcBody(
                              "jsonrpc_result", request_id, "", 0,
                              Result("initialize", client_version,
                                     _get_tool_list(registry), <<>>, FALSE)),
                          <<>>)

\* MCPHandler._handle_initialize; params.get raises AttributeError when
\* params is not a dict, and client_version < PROTOCOL_VERSION raises
\* TypeError when the version is an int or a list
_handle_initialize(registry, request_id, params) ==
    IF params.kind = "array" THEN HandlerRaised
    ELSE LET has_version == params.kind = "object"
                            /\ params.has_protocolVersion
             client_version == params.protocolVersion
         IN  IF ~has_version \/ Len(client_version) = 0
             THEN Handled(_create_error_response(
                              request_id, JSONRPC_INVALID_PARAMS,
                              "Protocol version is required"), <<>>)
             ELSE IF params.protocolVersion_type # "str" THEN HandlerRaised
             ELSE IF str_lt(client_version, PROTOCOL_VERSION)
             THEN Handled(_create_error_response(
                              request_id, JSONRPC_INVALID_PARAMS,
                              "Unsupported protocol version"), <<>>)
             ELSE Handled(JsonRpcBody(
                              "jsonrpc_result", request_id, "", 0,
                              Result("initialize", PROTOCOL_VERSION,
                                     _get_tool_list(registry), <<>>, FALSE)),
                          <<>>)

\* MCPHandler._handle_list_tools
_handle_list_tools(registry, request_id, params) ==
    Handled(JsonRpcBody("jsonrpc_result", request_id, "", 0,
                        Result("tools", <<>>, _get_tool_list(registry),
                               <<>>, FALSE)),
            <<>>)

\* the content item {"type": "text", "text": ...} made of what
\* validate_and_call returned: the error text, or str(result) of the call
TextContent(result) ==
    [type |-> "text", error |-> result.error, returned |-> result.content]

\* _handle_call_tool answering a name that is not registered as it
\* answers a missing name
_handle_call_tool_one_code(registry, request_id, params) ==
    IF params.kind = "array" THEN HandlerRaised
    ELSE LET has_name == params.kind = "object" /\ params.has_name
             tool_name == params.name
             arguments == IF params.kind = "object" /\ params.has_arguments
                          THEN params.arguments
                          ELSE JsonObject(<<>>)
         IN  IF ~has_name \/ tool_name = ""
             THEN Handled(_create_error_response(
                              request_id, JSONRPC_INVALID_PARAMS,
                              "Tool name is required"), <<>>)
             ELSE IF params.name_type # "str" THEN HandlerRaised
             ELSE IF ~dict_has(registry, tool_name)
             THEN Handled(_create_error_response(
                              request_id, JSONRPC_INVALID_PARAMS,
                              "Tool not found"), <<>>)
             ELSE LET tool == dict_get(registry, tool_name,
                                       registry[1].v).tool_instance
                      result == validate_and_call(tool, arguments)
                  IN  IF result.error # ""
                      THEN Handled(JsonRpcBody(
                                       "jsonrpc_result", request_id, "", 0,
                                       Result("content", <<>>, <<>>,
                                              <<TextContent(result)>>,
                                              TRUE)),
                                   result.called)
                      ELSE Handled(JsonRpcBody(
                                       "jsonrpc_result", request_id, "", 0,
                                       Result("content", <<>>, <<>>,
                                              <<TextContent(result)>>,
                                              FALSE)),
                                   result.called)

\* MCPHandler._handle_call_tool; params.get raises AttributeError when
\* params is not a dict, tool_name not in self.tools raises TypeError when
\* the name is a list (unhashable), and arguments defaults to {}
_handle_call_tool(registry, request_id, params) ==
    IF params.kind = "array" THEN HandlerRaised
    ELSE LET has_name == params.kind = "object" /\ params.has_name
             tool_name == params.name
             arguments == IF params.kind = "object" /\ params.has_arguments
                          THEN params.arguments
                          ELSE JsonObject(<<>>)
         IN  IF ~has_name \/ tool_name = ""
             THEN Handled(_create_error_response(
                              request_id, JSONRPC_INVALID_PARAMS,
                              "Tool name is required"), <<>>)
             ELSE IF params.name_type # "str" THEN HandlerRaised
             ELSE IF ~dict_has(registry, tool_name)
             THEN Handled(_create_error_response(
                              request_id, JSONRPC_METHOD_NOT_FOUND,
                              "Tool not found"), <<>>)
             ELSE LET tool == dict_get(registry, tool_name,
                                       registry[1].v).tool_instance
                      result == validate_and_call(tool, arguments)
                  IN  IF result.error # ""
                      THEN Handled(JsonRpcBody(
                                       "jsonrpc_result", request_id, "", 0,
                                       Result("content", <<>>, <<>>,
                                              <<TextContent(result)>>,
                                              TRUE)),
                                   result.called)
                      ELSE Handled(JsonRpcBody(
                                       "jsonrpc_result", request_id, "", 0,
                                       Result("content", <<>>, <<>>,
                                              <<TextContent(result)>>,
                                              FALSE)),
                                   result.called)

\* _handle_message answering a method it does not know as it answers ping
_handle_message_unknown_as_ping(registry, message) ==
    LET method == IF message.has_method THEN message.method ELSE ""
        request_id == IF message.has_id THEN message.id ELSE "null"
        params == message.params
    IN  IF method = "notifications/initialized" THEN Handled(NoBody, <<>>)
        ELSE IF method = "notifications/cancelled"
        THEN Handled(NoBody, <<>>)
        ELSE IF method = "ping" THEN _handle_ping(request_id)
        ELSE IF method = "initialize"
        THEN _handle_initialize(registry, request_id, params)
        ELSE IF method = "tools/list"
        THEN _handle_list_tools(registry, request_id, params)
        ELSE IF method = "tools/call"
        THEN _handle_call_tool(registry, request_id, params)
        ELSE _handle_ping(request_id)

\* MCPHandler._handle_message; message.get("id") is None without an id
_handle_message(registry, message) ==
    LET method == IF message.has_method THEN message.method ELSE ""
        request_id == IF message.has_id THEN message.id ELSE "null"
        params == message.params
    IN  IF method = "notifications/initialized" THEN Handled(NoBody, <<>>)
        ELSE IF method = "notifications/cancelled"
        THEN Handled(NoBody, <<>>)
        ELSE IF method = "ping" THEN _handle_ping(request_id)
        ELSE IF method = "initialize"
        THEN _handle_initialize(registry, request_id, params)
        ELSE IF method = "tools/list"
        THEN _handle_list_tools(registry, request_id, params)
        ELSE IF method = "tools/call"
        THEN _handle_call_tool(registry, request_id, params)
        ELSE Handled(JsonRpcBody("jsonrpc_error", request_id,
                                 "Method not found",
                                 JSONRPC_METHOD_NOT_FOUND, NoResult),
                     <<>>)

\* handle_request without its outer except: what int() or a method handler
\* raises leaves the entry point
handle_request_without_except(registry, env) ==
    LET content_length == IF env.has_content_length
                          THEN int(env.CONTENT_LENGTH)
                          ELSE [raised |-> FALSE, value |-> 0]
    IN
    IF content_length.raised
    THEN Raised(<<"handle_request">>)
    ELSE IF content_length.value = 0
    THEN _send_jsonrpc_error(JSONRPC_INVALID_REQUEST, "Empty request body")
    ELSE LET message == env.wsgi_input IN
         IF ~message.is_json
         THEN _send_jsonrpc_error(JSONRPC_PARSE_ERROR, "Parse error")
         ELSE LET validation_error == _validate_jsonrpc_message(message) IN
              IF validation_error # ""
              THEN _send_jsonrpc_error(JSONRPC_INVALID_REQUEST,
                                       validation_error)
              ELSE LET handled == _handle_message(registry, message) IN
                   IF handled.raised
                   THEN Raised(<<"handle_request">>)
                   ELSE IF handled.response.kind = "none"
                   THEN Response(HTTP_ACCEPTED, Body("json", "status ok", 0),
                                 <<"handle_request">>)
                   ELSE [Response(HTTP_OK, handled.response,
                                  <<"handle_request">>)
                           EXCEPT !.tool_calls = handled.tool_calls]

\* MCPHandler.handle_request
handle_request(registry, env) ==
    LET content_length == IF env.has_content_length
                          THEN int(env.CONTENT_LENGTH)
                          ELSE [raised |-> FALSE, value |-> 0]
    IN
    IF content_length.raised
    THEN _send_jsonrpc_error(JSONRPC_INTERNAL_ERROR, "Internal error")
    ELSE IF content_length.value = 0
    THEN _send_jsonrpc_error(JSONRPC_INVALID_REQUEST, "Empty request body")
    ELSE LET message == env.wsgi_input IN
         IF ~message.is_json
         THEN _send_jsonrpc_error(JSONRPC_PARSE_ERROR, "Parse error")
         ELSE LET validation_error == _validate_jsonrpc_message(message) IN
              IF validation_error # ""
              THEN _send_jsonrpc_error(JSONRPC_INVALID_REQUEST,
                                       validation_error)
              ELSE LET handled == _handle_message(registry, message) IN
                   IF handled.raised
                   THEN _send_jsonrpc_error(JSONRPC_INTERNAL_ERROR,
                                            "Internal error")
                   ELSE IF handled.response.kind = "none"
                   THEN Response(HTTP_ACCEPTED, Body("json", "status ok", 0),
                                 <<"handle_request">>)
                   ELSE [Response(HTTP_OK, handled.response,
                                  <<"handle_request">>)
                           EXCEPT !.tool_calls = handled.tool_calls]

---------------------------------------------------------------------------
(* tools/project_eval.py: project_eval runs the code in a child process   *)
(* (multiprocessing.Process) and waits for its output on a queue.  Texts  *)
(* are tuples of characters; a result is kept as the text str() gives it. *)

\* "Code execution timed out after "
TIMED_OUT_PREFIX ==
    <<"C", "o", "d", "e", " ", "e", "x", "e", "c", "u", "t", "i", "o", "n",
    " ", "t", "i", "m", "e", "d", " ", "o", "u", "t", " ", "a", "f", "t",
    "e", "r", " ">>

\* " seconds"
TIMED_OUT_SUFFIX ==
    <<" ", "s", "e", "c", "o", "n", "d", "s">>

\* "Code executed successfully"
EXECUTED_SUCCESSFULLY ==
    <<"C", "o", "d", "e", " ", "e", "x", "e", "c", "u", "t", "e", "d", " ",
    "s", "u", "c", "c", "e", "s", "s", "f", "u", "l", "l", "y">>

\* "STDOUT:\n"
STDOUT_HEADING ==
    <<"S", "T", "D", "O", "U", "T", ":", "\n">>

\* "STDERR:\n"
STDERR_HEADING ==
    <<"S", "T", "D", "E", "R", "R", ":", "\n">>

\* "Result:\n"
RESULT_HEADING ==
    <<"R", "e", "s", "u", "l", "t", ":", "\n">>

\* "timed out"
TEXT_TIMED_OUT ==
    <<"t", "i", "m", "e", "d", " ", "o", "u", "t">>

\* str(1 + 1)
TEXT_TWO ==
    <<"2">>

\* str(3)
TEXT_THREE ==
    <<"3">>

\* what print("hi") writes
TEXT_HI ==
    <<"h", "i", "\n">>

\* what sys.stderr.write("warn") writes
TEXT_WARN ==
    <<"w", "a", "r", "n">>

\* str(ZeroDivisionError) of 1 / 0
TEXT_DIVISION ==
    <<"d", "i", "v", "i", "s", "i", "o", "n", " ", "b", "y", " ", "z", "e",
    "r", "o">>

\* a value of the evaluated code that reads like the timeout message
TEXT_FAKE_TIMEOUT ==
    <<"I", " ", "t", "i", "m", "e", "d", " ", "o", "u", "t">>

\* n as at least `width` digits, zero-padded on the left
zero_padded(n, width) ==
    LET digits == str(n) IN
    [i \in 1..(width - Len(digits)) |-> "0"] \o digits

\* str(timeout / 1000) for an int timeout in milliseconds: the repr of the
\* float, which is the decimal with trailing zeros removed and at least
\* one digit after the point
seconds_text(timeout) ==
    LET magnitude == IF timeout < 0 THEN 0 - timeout ELSE timeout
        whole == magnitude \div 1000
        thousandths == magnitude % 1000
        fraction == IF thousandths % 100 = 0 THEN str(thousandths \div 100)
                    ELSE IF thousandths % 10 = 0
                    THEN zero_padded(thousandths \div 10, 2)
                    ELSE zero_padded(thousandths, 3)
    IN  (IF timeout < 0 THEN <<"-">> ELSE <<>>)
            \o str(whole) \o <<".">> \o fraction

\* what the evaluated code did when it ran to its end: "expression" (eval
\* returned value), "statements" (eval raised SyntaxError and exec ran;
\* value is the global `result` when has_result), "exception" (an
\* Exception was raised; value is str(e)); out and err are what it wrote
Evaluation(kind, value, has_result, out, err) ==
    [kind |-> kind, value |-> value, has_result |-> has_result,
     out |-> out, err |-> err]

\* the dict of outcome values; error <<>> with has_error FALSE is None
Outcome(result, success, stdout, stderr, has_error, error) ==
    [result |-> result, success |-> success, stdout |-> stdout,
     stderr |-> stderr, has_error |-> has_error, error |-> error]

NoOutcome == Outcome(<<>>, FALSE, <<>>, <<>>, FALSE, <<>>)

\* execute_code: the dict it puts on the queue
execute_code(evaluation) ==
    IF evaluation.kind = "expression"
    THEN Outcome(evaluation.value, TRUE, evaluation.out, evaluation.err,
                 FALSE, <<>>)
    ELSE IF evaluation.kind = "statements"
    THEN Outcome(IF evaluation.has_result THEN evaluation.value
                 ELSE EXECUTED_SUCCESSFULLY,
                 TRUE, evaluation.out, evaluation.err, FALSE, <<>>)
    ELSE Outcome(evaluation.value, FALSE, evaluation.out, evaluation.err,
                 TRUE, evaluation.value)

\* the values after the timeout, with the output streams not emptied
timed_out_as_success(timeout) ==
    LET result == TIMED_OUT_PREFIX \o seconds_text(timeout)
                      \o TIMED_OUT_SUFFIX
    IN  Outcome(result, TRUE, <<>>, <<>>, FALSE, <<>>)

\* project_eval, the except q.Empty branch: the values after the timeout
timed_out(timeout) ==
    LET result == TIMED_OUT_PREFIX \o seconds_text(timeout)
                      \o TIMED_OUT_SUFFIX
    IN  Outcome(result, FALSE, <<>>, <<>>, TRUE, result)

\* project_eval, the else branch: the values taken from the output
received(output) ==
    Outcome(output.result, output.success, output.stdout, output.stderr,
            output.has_error, output.error)

\* what project_eval returns: the JSON text of the five values, or
\* str(result), or the three sections joined by "\n"
Returned(format, text, members) ==
    [format |-> format, text |-> text, members |-> members]

NotReturned == Returned("none", <<>>, NoOutcome)

\* project_eval, from `if json:` to the end
format_response(json, outcome) ==
    IF json THEN Returned("json", <<>>, outcome)
    ELSE IF Len(outcome.stdout) = 0 /\ Len(outcome.stderr) = 0
    THEN Returned("text", outcome.result, NoOutcome)
    ELSE Returned("sections",
                  STDOUT_HEADING \o outcome.stdout \o <<"\n">>
                      \o STDERR_HEADING \o outcome.stderr \o <<"\n">>
                      \o RESULT_HEADING \o outcome.result,
                  NoOutcome)

\* the arguments of a project_eval call
EvalArgs(timeout, json) == [timeout |-> timeout, json |-> json]

\* the child process: state "none" | "running" | "exited"; what the child
\* does with SIGTERM, "default" (it dies) or "ignored"; whether a SIGTERM
\* is pending; whether execute_code has put its output; whether the parent
\* has joined it
Process(state, sigterm, signalled, delivered, joined, exitcode) ==
    [state |-> state, sigterm |-> sigterm, signalled |-> signalled,
     delivered |-> delivered, joined |-> joined, exitcode |-> exitcode]

NoProcess == Process("none", "default", FALSE, FALSE, FALSE, 0)

\* the exit code of a process killed by SIGTERM
SIGTERM_EXITCODE == 0 - 15

---------------------------------------------------------------------------
(* Middleware._execute_command: the generator of binary chunks.  Bytes    *)
(* are the integers 0..255.                                                *)

\* process.stdout.read(4096)
READ_SIZE == 4096

\* the status sent when the except branch runs
ERROR_STATUS == 213

\* struct.pack("!L", n): four bytes, the most significant first
pack_L(n) ==
    <<(n \div 16777216) % 256, (n \div 65536) % 256, (n \div 256) % 256,
      n % 256>>

\* struct.pack("!BL", chunk_type, len(data)) + data
pack_chunk(chunk_type, data) == <<chunk_type>> \o pack_L(Len(data)) \o data

\* str(n).encode() for an int n, negative ones included
int_bytes(n) ==
    LET digits == str(IF n < 0 THEN 0 - n ELSE n) IN
    (IF n < 0 THEN <<45>> ELSE <<>>)
        \o [i \in 1..Len(digits) |-> 48 + DigitValue(digits[i])]

\* json.dumps({"status": n}).encode("utf-8"): {"status": n}
status_json(n) ==
    <<123, 34, 115, 116, 97, 116, 117, 115, 34, 58, 32>>
        \o int_bytes(n) \o <<125>>

\* the chunk sent after process.wait()
status_chunk(exit_status) == pack_chunk(1, status_json(exit_status))

\* the except branch sending its status as a data chunk
error_chunk_as_data == pack_chunk(0, status_json(ERROR_STATUS))

\* the chunk sent by the except branch
error_chunk == pack_chunk(1, status_json(ERROR_STATUS))

\* `not cmd` is False: the value parsed_body.get("command") is truthy
truthy(value) ==
    IF value.t = "null" THEN FALSE
    ELSE IF value.t = "boolean" THEN value.v = "true"
    ELSE IF value.t = "number" THEN value.v \notin {"0", "0.0"}
    ELSE IF value.t = "string" THEN value.v # ""
    ELSE Len(value.members) > 0

\* the programs found on the PATH of the server
PROGRAMS == {"echo", "sleep"}

\* subprocess.Popen(cmd, ..., shell=isinstance(cmd, str)) returns a
\* process: a string is handed to the shell, a list must be made of
\* strings and name a program; anything else raises
popen_starts(cmd) ==
    IF cmd.t = "string" THEN TRUE
    ELSE IF cmd.t = "array"
    THEN /\ Len(cmd.members) > 0
         /\ \A i \in 1..Len(cmd.members) : cmd.members[i].t = "string"
         /\ cmd.members[1].v \in PROGRAMS
    ELSE FALSE

\* the process Popen returned: state "none" | "running" | "exited"; the
\* bytes it has yet to write and the status it exits with; whether the
\* descriptor of its stdout pipe is beyond what select.select accepts;
\* whether it has been waited for; the bytes it has written so far
Popen(state, output, exit_status, high_fd, reaped) ==
    [state |-> state, output |-> output, exit_status |-> exit_status,
     high_fd |-> high_fd, reaped |-> reaped, written |-> <<>>]

NoPopen == Popen("none", <<>>, 0, FALSE, FALSE)

\* the Popen object is dropped with the generator's frame: Popen.__del__
\* collects a child that has exited and leaves a running one
dropped(p) ==
    IF p.state = "exited" THEN [p EXCEPT !.reaped = TRUE] ELSE p

---------------------------------------------------------------------------
(* Middleware._handle_shell_command and _execute_command *)

\* Middleware._handle_shell_command; the chunk stream returned for a
\* command is drained by the server, which starts the child process when
\* Popen accepts the command
_handle_shell_command(env) ==
    LET called == <<"_handle_shell_command">>
        parsed_body == env.wsgi_input
        cmd == parsed_body.command
        parsed_length == IF env.has_content_length
                         THEN int(env.CONTENT_LENGTH)
                         ELSE [raised |-> FALSE, value |-> 0]
        content_length == IF parsed_length.raised THEN 0
                          ELSE parsed_length.value
    IN  IF content_length = 0
        THEN _send_error_response(HTTP_BAD_REQUEST,
                                  "Command body is required", called)
        ELSE IF ~parsed_body.is_json
        THEN _send_error_response(HTTP_BAD_REQUEST,
                                  "Invalid JSON in request body", called)
        ELSE IF ~parsed_body.is_object
        THEN _send_error_response(HTTP_BAD_REQUEST,
                                  "Error reading request body", called)
        ELSE IF ~truthy(cmd)
        THEN _send_error_response(HTTP_BAD_REQUEST,
                                  "Command field is required", called)
        ELSE [Response(HTTP_OK, Body("chunks", cmd.v, 0),
                       called \o <<"_execute_command">>)
                EXCEPT !.spawned = IF popen_starts(cmd) THEN 1 ELSE 0]

---------------------------------------------------------------------------
(* Middleware.__call__ *)

\* the wrapped WSGI application: it is called with the environ and the
\* start_response it was given, and answers as `host` says
app(env, host, called) ==
    [status |-> host.status, body |-> Body("app", host.text, 0),
     calls |-> called \o <<"app">>, app_args |-> <<env>>,
     started |-> 1, spawned |-> 0, raised |-> FALSE,
     headers |-> host.headers, tool_calls |-> <<>>]

full_path_of(cfg, env) ==
    IF cfg.use_script_name THEN env.SCRIPT_NAME \o env.PATH_INFO
    ELSE env.PATH_INFO

\* the security message sent with 403, by the kind _check_security returned
security_message(kind) ==
    IF kind = "remote"
    THEN "Tidewave does not accept remote connections by default"
    ELSE IF kind = "malformed"
    THEN "The origin header appears to be malformed"
    ELSE "If you want to allow requests from host, configure accordingly"

\* route with the method tests dropped: every recognized path reaches its
\* handler
route_any_method(cfg, env, host) ==
    LET full_path == full_path_of(cfg, env) IN
    IF full_path = TIDEWAVE_PREFIX THEN _handle_home_route(cfg)
    ELSE IF full_path = ROUTE_CONFIG THEN _handle_config_route(cfg)
    ELSE IF full_path = ROUTE_MCP THEN handle_request(tools, env)
    ELSE IF full_path = ROUTE_SHELL THEN _handle_shell_command(env)
    ELSE app(env, host, <<>>)

\* the routing that follows the security check
route(cfg, env, host) ==
    LET full_path == full_path_of(cfg, env)
        method == upper(env.REQUEST_METHOD)
    IN  IF full_path = TIDEWAVE_PREFIX THEN _handle_home_route(cfg)
        ELSE IF full_path = ROUTE_CONFIG
        THEN IF method = METHOD_GET THEN _handle_config_route(cfg)
             ELSE _send_error_response(HTTP_METHOD_NOT_ALLOWED, "", <<>>)
        ELSE IF full_path = ROUTE_MCP
        THEN IF method = METHOD_POST THEN handle_request(tools, env)
             ELSE _send_error_response(HTTP_METHOD_NOT_ALLOWED, "", <<>>)
        ELSE IF full_path = ROUTE_SHELL
        THEN IF method = METHOD_POST THEN _handle_shell_command(env)
             ELSE _send_error_response(HTTP_METHOD_NOT_ALLOWED, "", <<>>)
        ELSE app(env, host, <<>>)

\* whether __call__ runs _check_security for the path
is_tidewave_route(full_path) == startswith(full_path, TIDEWAVE_PREFIX)

Middleware__call__(cfg, env, host) ==
    LET security_error == IF is_tidewave_route(full_path_of(cfg, env))
                          THEN _check_security(cfg, env)
                          ELSE "none"
    IN  IF security_error = "raise" THEN Raised(<<>>)
        ELSE IF security_error # "none"
        THEN _send_error_response(HTTP_FORBIDDEN,
                                  security_message(security_error), <<>>)
        ELSE route(cfg, env, host)

---------------------------------------------------------------------------
(* tidewave.flask Middleware: the Flask adapter around the router *)

\* dict(headers): a later item with the same name replaces the value of
\* the earlier one, which keeps its place
RECURSIVE dict_from_items(_, _)
dict_from_items(items, d) ==
    IF Len(items) = 0 THEN d
    ELSE dict_from_items(Tail(items), dict_set(d, items[1].k, items[1].v))

\* flask Middleware._process_response
_process_response(headers) ==
    LET headers_dict == dict_from_items(headers, <<>>)
        without_xfo == IF dict_has(headers_dict, "X-Frame-Options")
                       THEN dict_del(headers_dict, "X-Frame-Options")
                       ELSE headers_dict
    IN  IF dict_has(without_xfo, "Content-Security-Policy")
        THEN dict_set(without_xfo, "Content-Security-Policy",
                      modify_csp(dict_get(without_xfo,
                                          "Content-Security-Policy", <<>>)))
        ELSE without_xfo

\* flask Middleware._handle_normal_request: the application is called with
\* handle_response, which rewrites the headers on their way out
_handle_normal_request(env, host) ==
    [app(env, host, <<"_handle_normal_request">>)
        EXCEPT !.headers = _process_response(host.headers)]

\* flask Middleware.__call__
FlaskMiddleware__call__(cfg, env, host) ==
    IF startswith(env.PATH_INFO, TIDEWAVE_PREFIX)
    THEN Middleware__call__(cfg, env, host)
    ELSE _handle_normal_request(env, host)

---------------------------------------------------------------------------
(* The inputs the model draws requests, configurations and host responses  *)
(* from.                                                                   *)

\* ""
PATH_EMPTY ==
    <<>>
\* "/"
PATH_ROOT ==
    <<"/">>
\* "/tidewave/"
PATH_TIDEWAVE_SLASH ==
    <<"/", "t", "i", "d", "e", "w", "a", "v", "e", "/">>
\* "/tidewave/other"
PATH_TIDEWAVE_OTHER ==
    <<"/", "t", "i", "d", "e", "w", "a", "v", "e", "/", "o", "t", "h",
      "e", "r">>
\* "/tidewavefoo"
PATH_TIDEWAVEFOO ==
    <<"/", "t", "i", "d", "e", "w", "a", "v", "e", "f", "o", "o">>
\* "/other"
PATH_OTHER ==
    <<"/", "o", "t", "h", "e", "r">>
\* "/mcp"
PATH_MCP ==
    <<"/", "m", "c", "p">>
\* "/shell"
PATH_SHELL ==
    <<"/", "s", "h", "e", "l", "l">>
\* "/config"
PATH_CONFIG ==
    <<"/", "c", "o", "n", "f", "i", "g">>
\* "/app"
PATH_APP ==
    <<"/", "a", "p", "p">>
\* "/test"
PATH_TEST ==
    <<"/", "t", "e", "s", "t">>
\* "post"
METHOD_LOWER_POST ==
    <<"p", "o", "s", "t">>
\* "get"
METHOD_LOWER_GET ==
    <<"g", "e", "t">>
\* "PUT"
METHOD_PUT ==
    <<"P", "U", "T">>
\* "127.0.0.1"
ADDR_LOCAL ==
    <<"1", "2", "7", ".", "0", ".", "0", ".", "1">>
\* "127.0.0.255"
ADDR_LOCAL_255 ==
    <<"1", "2", "7", ".", "0", ".", "0", ".", "2", "5", "5">>
\* "127.0.0.999"
ADDR_LOCAL_999 ==
    <<"1", "2", "7", ".", "0", ".", "0", ".", "9", "9", "9">>
\* "127.1.2.3"
ADDR_NET127 ==
    <<"1", "2", "7", ".", "1", ".", "2", ".", "3">>
\* "::ffff:127.0.0.2"
ADDR_MAPPED_2 ==
    <<":", ":", "f", "f", "f", "f", ":", "1", "2", "7", ".", "0", ".",
      "0", ".", "2">>
\* "192.168.1.100"
ADDR_LAN ==
    <<"1", "9", "2", ".", "1", "6", "8", ".", "1", ".", "1", "0", "0">>
\* "invalid"
ADDR_INVALID ==
    <<"i", "n", "v", "a", "l", "i", "d">>
\* "2001:4860:4860::8888"
ADDR_PUBLIC_V6 ==
    <<"2", "0", "0", "1", ":", "4", "8", "6", "0", ":", "4", "8", "6",
      "0", ":", ":", "8", "8", "8", "8">>
\* "http://localhost:3000"
ORIGIN_LOCALHOST ==
    <<"h", "t", "t", "p", ":", "/", "/", "l", "o", "c", "a", "l", "h",
      "o", "s", "t", ":", "3", "0", "0", "0">>
\* "http://test.localhost"
ORIGIN_SUB_LOCALHOST ==
    <<"h", "t", "t", "p", ":", "/", "/", "t", "e", "s", "t", ".", "l",
      "o", "c", "a", "l", "h", "o", "s", "t">>
\* "http://127.0.0.1:8000"
ORIGIN_V4 ==
    <<"h", "t", "t", "p", ":", "/", "/", "1", "2", "7", ".", "0", ".",
      "0", ".", "1", ":", "8", "0", "0", "0">>
\* "http://[::1]:3000"
ORIGIN_V6 ==
    <<"h", "t", "t", "p", ":", "/", "/", "[", ":", ":", "1", "]", ":",
      "3", "0", "0", "0">>
\* "https://EXAMPLE.com"
ORIGIN_EXAMPLE_UPPER ==
    <<"h", "t", "t", "p", "s", ":", "/", "/", "E", "X", "A", "M", "P",
      "L", "E", ".", "c", "o", "m">>
\* "http://sub.example.com"
ORIGIN_SUB_EXAMPLE ==
    <<"h", "t", "t", "p", ":", "/", "/", "s", "u", "b", ".", "e", "x",
      "a", "m", "p", "l", "e", ".", "c", "o", "m">>
\* "http://notexample.com"
ORIGIN_NOTEXAMPLE ==
    <<"h", "t", "t", "p", ":", "/", "/", "n", "o", "t", "e", "x", "a",
      "m", "p", "l", "e", ".", "c", "o", "m">>
\* "http://com"
ORIGIN_PARENT ==
    <<"h", "t", "t", "p", ":", "/", "/", "c", "o", "m">>
\* "localhost:3000"
ORIGIN_NO_SCHEME ==
    <<"l", "o", "c", "a", "l", "h", "o", "s", "t", ":", "3", "0", "0", "0">>
\* "null"
ORIGIN_NULL ==
    <<"n", "u", "l", "l">>
\* "http://[::1"
ORIGIN_OPEN_BRACKET ==
    <<"h", "t", "t", "p", ":", "/", "/", "[", ":", ":", "1">>
\* "*"
PATTERN_STAR ==
    <<"*">>
\* ".example.com"
PATTERN_DOT_EXAMPLE ==
    <<".", "e", "x", "a", "m", "p", "l", "e", ".", "c", "o", "m">>
\* "EXAMPLE.com"
PATTERN_EXAMPLE_UPPER ==
    <<"E", "X", "A", "M", "P", "L", "E", ".", "c", "o", "m">>
\* "localhost"
PATTERN_LOCALHOST ==
    <<"l", "o", "c", "a", "l", "h", "o", "s", "t">>
\* "::1"
PATTERN_V6 ==
    <<":", ":", "1">>
\* "example.com"
HOST_EXAMPLE ==
    <<"e", "x", "a", "m", "p", "l", "e", ".", "c", "o", "m">>
\* "sub.example.com"
HOST_SUB_EXAMPLE ==
    <<"s", "u", "b", ".", "e", "x", "a", "m", "p", "l", "e", ".", "c",
      "o", "m">>
\* "notexample.com"
HOST_NOTEXAMPLE ==
    <<"n", "o", "t", "e", "x", "a", "m", "p", "l", "e", ".", "c", "o", "m">>
\* "com"
HOST_PARENT ==
    <<"c", "o", "m">>
\* "localhost"
HOST_LOCALHOST ==
    <<"l", "o", "c", "a", "l", "h", "o", "s", "t">>
\* "test.localhost"
HOST_SUB_LOCALHOST ==
    <<"t", "e", "s", "t", ".", "l", "o", "c", "a", "l", "h", "o", "s", "t">>
\* "127.0.0.1"
HOST_V4 ==
    <<"1", "2", "7", ".", "0", ".", "0", ".", "1">>
\* "::1"
HOST_V6 ==
    <<":", ":", "1">>
\* "DENY"
VALUE_DENY ==
    <<"D", "E", "N", "Y">>
\* "text/html"
VALUE_HTML ==
    <<"t", "e", "x", "t", "/", "h", "t", "m", "l">>
\* "a=1"
VALUE_COOKIE_A ==
    <<"a", "=", "1">>
\* "b=2"
VALUE_COOKIE_B ==
    <<"b", "=", "2">>
\* "default-src 'none'; script-src 'self'; frame-ancestors 'none'"
VALUE_CSP_FULL ==
    <<"d", "e", "f", "a", "u", "l", "t", "-", "s", "r", "c", " ", "'",
      "n", "o", "n", "e", "'", ";", " ", "s", "c", "r", "i", "p", "t",
      "-", "s", "r", "c", " ", "'", "s", "e", "l", "f", "'", ";", " ",
      "f", "r", "a", "m", "e", "-", "a", "n", "c", "e", "s", "t", "o",
      "r", "s", " ", "'", "n", "o", "n", "e", "'">>
\* "Frame-Ancestors 'self'; IMG-SRC *"
VALUE_CSP_UPPER ==
    <<"F", "r", "a", "m", "e", "-", "A", "n", "c", "e", "s", "t", "o",
      "r", "s", " ", "'", "s", "e", "l", "f", "'", ";", " ", "I", "M",
      "G", "-", "S", "R", "C", " ", "*">>

\* the longest header list a host response carries
MaxHeaders == 2

Header(name, value) == [k |-> name, v |-> value]

\* SCRIPT_NAME and PATH_INFO of a request
Mounts ==
    { <<PATH_EMPTY, PATH_ROOT>>,
      <<PATH_EMPTY, TIDEWAVE_PREFIX>>,
      <<PATH_EMPTY, PATH_TIDEWAVE_SLASH>>,
      <<PATH_EMPTY, ROUTE_CONFIG>>,
      <<PATH_EMPTY, ROUTE_MCP>>,
      <<PATH_EMPTY, ROUTE_SHELL>>,
      <<PATH_EMPTY, PATH_TIDEWAVE_OTHER>>,
      <<PATH_EMPTY, PATH_TIDEWAVEFOO>>,
      <<PATH_EMPTY, PATH_OTHER>>,
      <<TIDEWAVE_PREFIX, PATH_EMPTY>>,
      <<TIDEWAVE_PREFIX, PATH_MCP>>,
      <<TIDEWAVE_PREFIX, PATH_OTHER>>,
      <<PATH_APP, ROUTE_MCP>> }

Methods == {METHOD_GET, METHOD_POST, METHOD_LOWER_POST, METHOD_PUT}

RemoteAddrs ==
    {ADDR_LOCAL, ADDR_LOCAL_999, ADDR_NET127, LOOPBACK_V6,
     LOOPBACK_V4_MAPPED, ADDR_MAPPED_2, ADDR_LAN, ADDR_INVALID}

\* the Origin header: absent, or present with a value (possibly empty)
Origins ==
    {[has |-> FALSE, value |-> <<>>]} \cup
    {[has |-> TRUE, value |-> v] :
        v \in {<<>>, ORIGIN_LOCALHOST, ORIGIN_SUB_LOCALHOST, ORIGIN_V4,
               ORIGIN_V6, ORIGIN_EXAMPLE_UPPER, ORIGIN_SUB_EXAMPLE,
               ORIGIN_NOTEXAMPLE, ORIGIN_PARENT, ORIGIN_NO_SCHEME,
               ORIGIN_NULL, ORIGIN_OPEN_BRACKET}}

\* no body
DOC_EMPTY ==
    Document(0, FALSE, FALSE, "", FALSE, FALSE, "", FALSE, JSON_NULL)
\* {"jsonrpc": "2.0", "method": "ping", "id": 1}
DOC_PING ==
    Document(45, TRUE, TRUE, "2.0", TRUE, TRUE, "ping", FALSE, JSON_NULL)
\* {"command": "echo hello"}
DOC_COMMAND ==
    Document(25, TRUE, TRUE, "", FALSE, FALSE, "", FALSE,
             JsonString("echo hello", FALSE))

Documents == {DOC_EMPTY, DOC_PING, DOC_COMMAND}

Environ(mount, method, addr, origin, doc) ==
    [SCRIPT_NAME |-> mount[1], PATH_INFO |-> mount[2],
     REQUEST_METHOD |-> method, REMOTE_ADDR |-> addr,
     has_origin |-> origin.has, HTTP_ORIGIN |-> origin.value,
     has_content_length |-> TRUE, CONTENT_LENGTH |-> str(doc.len),
     wsgi_input |-> doc]

Environs ==
    {Environ(m, me, a, o, d) :
        m \in Mounts, me \in Methods, a \in RemoteAddrs, o \in Origins,
        d \in Documents}

AllowedOriginLists ==
    { <<>>,
      <<PATTERN_STAR>>,
      <<PATTERN_DOT_EXAMPLE>>,
      <<PATTERN_EXAMPLE_UPPER, PATTERN_V6>>,
      <<PATTERN_LOCALHOST>> }

\* the configuration dicts; has_allowed_origins FALSE is a dict without the
\* allowed_origins key
Configs ==
    {[allow_remote_access |-> r, use_script_name |-> u,
      has_allowed_origins |-> FALSE, allowed_origins |-> <<>>] :
        r \in BOOLEAN, u \in BOOLEAN} \cup
    {[allow_remote_access |-> r, use_script_name |-> u,
      has_allowed_origins |-> TRUE, allowed_origins |-> l] :
        r \in BOOLEAN, u \in BOOLEAN, l \in AllowedOriginLists}

\* what the wrapped application answers
HostResponses ==
    { [status |-> 200, text |-> "demo response",
       headers |-> <<Header("Content-Type", VALUE_HTML),
                     Header("X-Frame-Options", VALUE_DENY)>>],
      [status |-> 404, text |-> "Not Found",
       headers |-> <<Header("Content-Type", VALUE_HTML)>>] }

\* the header items of a host response behind the Flask adapter
HeaderItems ==
    { Header("Content-Type", VALUE_HTML),
      Header("X-Frame-Options", VALUE_DENY),
      Header("x-frame-options", VALUE_DENY),
      Header("Content-Security-Policy", VALUE_CSP_FULL),
      Header("Content-Security-Policy", VALUE_CSP_UPPER),
      Header("content-security-policy", VALUE_CSP_FULL),
      Header("Set-Cookie", VALUE_COOKIE_A),
      Header("Set-Cookie", VALUE_COOKIE_B) }

HeaderLists ==
    UNION {[1..n -> HeaderItems] : n \in 0..MaxHeaders}

FlaskHostResponses ==
    {[status |-> 200, text |-> "Hello World", headers |-> h] :
        h \in HeaderLists}

FlaskEnvirons ==
    {Environ(m, me, a, o, DOC_EMPTY) :
        m \in { <<PATH_EMPTY, PATH_ROOT>>, <<PATH_EMPTY, PATH_TEST>>,
                <<PATH_EMPTY, TIDEWAVE_PREFIX>>,
                <<PATH_EMPTY, ROUTE_CONFIG>>,
                <<PATH_EMPTY, PATH_TIDEWAVE_OTHER>>,
                <<PATH_EMPTY, PATH_TIDEWAVEFOO>> },
        me \in {METHOD_GET, METHOD_POST},
        a \in {ADDR_LOCAL, ADDR_LAN},
        o \in {[has |-> FALSE, value |-> <<>>],
               [has |-> TRUE, value |-> ORIGIN_NOTEXAMPLE]}}

FlaskConfigs == {c \in Configs : ~c.use_script_name /\ Len(c.allowed_origins) = 0}

---------------------------------------------------------------------------
(* The tool functions handlers are constructed with, and the request       *)
(* bodies MCPHandler.handle_request is given.                              *)

NoDefault == JSON_NULL

\* def add(a: float, b: float) -> str
FUNC_ADD ==
    Function("add", "Add two numbers together.",
             <<Parameter("a", POSITIONAL_OR_KEYWORD, "float", FALSE,
                         NoDefault),
               Parameter("b", POSITIONAL_OR_KEYWORD, "float", FALSE,
                         NoDefault)>>,
             FALSE)

\* another function of the same name: def add(a: int, b: int) -> int
FUNC_ADD_INTS ==
    Function("add", "Add two integers.",
             <<Parameter("a", POSITIONAL_OR_KEYWORD, "int", FALSE,
                         NoDefault),
               Parameter("b", POSITIONAL_OR_KEYWORD, "int", FALSE,
                         NoDefault)>>,
             FALSE)

\* def get_logs(tail: int, *, grep: Optional[str] = None) -> str
FUNC_GET_LOGS ==
    Function("get_logs", "Returns all log output",
             <<Parameter("tail", POSITIONAL_OR_KEYWORD, "int", FALSE,
                         NoDefault),
               Parameter("grep", KEYWORD_ONLY, "Optional[str]", TRUE,
                         JSON_NULL)>>,
             FALSE)

\* def project_eval(code: str, arguments: Optional[list[Any]] = None,
\*                  timeout: int = 30_000, *, json: bool = False) -> str
FUNC_PROJECT_EVAL ==
    Function("project_eval", "Evaluates Python code",
             <<Parameter("code", POSITIONAL_OR_KEYWORD, "str", FALSE,
                         NoDefault),
               Parameter("arguments", POSITIONAL_OR_KEYWORD,
                         "Optional[list[Any]]", TRUE, JSON_NULL),
               Parameter("timeout", POSITIONAL_OR_KEYWORD, "int", TRUE,
                         JsonNumber("30000")),
               Parameter("json", KEYWORD_ONLY, "bool", TRUE,
                         JsonValue("boolean", "false", FALSE, <<>>))>>,
             FALSE)

\* def get_source_location(reference: str) -> str
FUNC_GET_SOURCE_LOCATION ==
    Function("get_source_location", "Get source location",
             <<Parameter("reference", POSITIONAL_OR_KEYWORD, "str", FALSE,
                         NoDefault)>>,
             FALSE)

\* def get_docs(reference: str) -> str
FUNC_GET_DOCS ==
    Function("get_docs", "Get documentation",
             <<Parameter("reference", POSITIONAL_OR_KEYWORD, "str", FALSE,
                         NoDefault)>>,
             FALSE)

\* def failing_func(x: int) -> str, whose body raises ValueError
FUNC_FAILING ==
    Function("failing_func", "This function always fails",
             <<Parameter("x", POSITIONAL_OR_KEYWORD, "int", FALSE,
                         NoDefault)>>,
             TRUE)

\* def no_types(a, b)
FUNC_NO_TYPES ==
    Function("no_types", "Function without type hints",
             <<Parameter("a", POSITIONAL_OR_KEYWORD, "", FALSE, NoDefault),
               Parameter("b", POSITIONAL_OR_KEYWORD, "", FALSE, NoDefault)>>,
             FALSE)

\* def func_with_required_hidden(visible: str, *, hidden_param: int) -> str
FUNC_REQUIRED_HIDDEN ==
    Function("func_with_required_hidden", "Function with required hidden",
             <<Parameter("visible", POSITIONAL_OR_KEYWORD, "str", FALSE,
                         NoDefault),
               Parameter("hidden_param", KEYWORD_ONLY, "int", FALSE,
                         NoDefault)>>,
             FALSE)

\* def untyped_hidden(x: int, *, flag=True), without a docstring
FUNC_UNTYPED_HIDDEN ==
    Function("untyped_hidden", "",
             <<Parameter("x", POSITIONAL_OR_KEYWORD, "int", FALSE,
                         NoDefault),
               Parameter("flag", KEYWORD_ONLY, "", TRUE,
                         JsonValue("boolean", "true", FALSE, <<>>))>>,
             FALSE)

\* MCPHandler([project_eval])
TEST_TOOL_FUNCTIONS == <<FUNC_PROJECT_EVAL>>

\* mcp_tools of the Flask adapter
FLASK_TOOL_FUNCTIONS ==
    <<FUNC_GET_DOCS, FUNC_GET_LOGS, FUNC_GET_SOURCE_LOCATION,
      FUNC_PROJECT_EVAL>>

ToolFunctions ==
    {FUNC_ADD, FUNC_ADD_INTS, FUNC_GET_LOGS, FUNC_PROJECT_EVAL, FUNC_FAILING,
     FUNC_NO_TYPES, FUNC_REQUIRED_HIDDEN, FUNC_UNTYPED_HIDDEN}

\* the longest list of functions a handler is constructed with
MaxTools == 2

ToolFunctionLists == UNION {[1..n -> ToolFunctions] : n \in 0..MaxTools}

\* the ids of messages: a number, a string, null
Ids == {"7", "\"req-1\"", "null"}

\* has_id and id of a message
IdChoices ==
    {[has |-> TRUE, id |-> i] : i \in Ids} \cup {[has |-> FALSE, id |-> "null"]}

\* "2024-11-05"
VERSION_OLDER == <<"2", "0", "2", "4", "-", "1", "1", "-", "0", "5">>
\* "2025-06-18"
VERSION_NEWER == <<"2", "0", "2", "5", "-", "0", "6", "-", "1", "8">>
\* "2025-03"
VERSION_PREFIX == <<"2", "0", "2", "5", "-", "0", "3">>
\* "2025-03-26-draft"
VERSION_DRAFT ==
    PROTOCOL_VERSION \o <<"-", "d", "r", "a", "f", "t">>
\* "3"
VERSION_THREE == <<"3">>
\* "10"
VERSION_TEN == <<"1", "0">>

Versions ==
    {<<>>, VERSION_OLDER, PROTOCOL_VERSION, VERSION_NEWER, VERSION_PREFIX,
     VERSION_DRAFT, VERSION_THREE, VERSION_TEN}

\* {"protocolVersion": 5}
INT_VERSION_PARAMS ==
    [Params("object", TRUE, <<"5">>, FALSE, "", FALSE, JSON_NULL)
        EXCEPT !.protocolVersion_type = "int"]

InitializeParams ==
    {Params("object", FALSE, <<>>, FALSE, "", FALSE, JSON_NULL)} \cup
    {Params("object", TRUE, v, FALSE, "", FALSE, JSON_NULL) : v \in Versions}
        \cup {INT_VERSION_PARAMS}

Item(k, v) == [k |-> k, v |-> v]

\* the "arguments" member of tools/call params
ArgumentValues ==
    { JsonObject(<<>>),
      JsonObject(<<Item("a", JsonNumber("1")), Item("b", JsonNumber("2"))>>),
      JsonObject(<<Item("a", JsonString("abc", FALSE)),
                   Item("b", JsonNumber("2"))>>),
      JsonObject(<<Item("a", JsonNumber("1"))>>),
      JsonObject(<<Item("tail", JsonString("5", TRUE))>>),
      JsonObject(<<Item("tail", JsonNumber("5"))>>),
      JsonObject(<<Item("a", JsonNumber("1")), Item("b", JsonNumber("2")),
                   Item("c", JsonNumber("3"))>>),
      JsonObject(<<Item("tail", JsonNumber("5")),
                   Item("grep", JsonString("error", FALSE))>>),
      JsonObject(<<Item("code", JsonString("1 + 1", FALSE))>>),
      JsonObject(<<Item("x", JsonNumber("1"))>>),
      JSON_ARRAY }

ToolNames ==
    {"", "add", "get_logs", "project_eval", "failing_func", "unknown_tool"}

\* {"name": ["add"]}
LIST_NAME_PARAMS ==
    [Params("object", FALSE, <<>>, TRUE, "['add']", FALSE, JSON_NULL)
        EXCEPT !.name_type = "list"]

CallToolParams ==
    {Params("object", FALSE, <<>>, TRUE, n, FALSE, JSON_NULL) :
        n \in ToolNames} \cup
    {Params("object", FALSE, <<>>, TRUE, n, TRUE, a) :
        n \in ToolNames, a \in ArgumentValues}
        \cup {LIST_NAME_PARAMS}

\* params that is not a dict: a JSON array
ARRAY_PARAMS == Params("array", FALSE, <<>>, FALSE, "", FALSE, JSON_NULL)

NotificationMethods ==
    {"notifications/initialized", "notifications/cancelled"}

RequestMethods == {"ping", "initialize", "tools/list", "tools/call"}

Methods_ ==
    NotificationMethods \cup RequestMethods \cup {"resources/list", "Ping"}

\* a JSON object with the given members
Message(jsonrpc, id, has_method, method, has_result, params) ==
    [Document(64, TRUE, TRUE, jsonrpc, id.has, has_method, method,
              has_result, JSON_NULL)
        EXCEPT !.id = id.id, !.params = params]

\* the envelopes: every combination of jsonrpc, id, method and result
Envelopes ==
    {Message(j, i, TRUE, m, r, p) :
        j \in {"2.0", "1.0", ""}, i \in IdChoices, m \in Methods_,
        r \in BOOLEAN, p \in {NoParams, ARRAY_PARAMS}} \cup
    {Message(j, i, FALSE, "", r, NoParams) :
        j \in {"2.0", "1.0", ""}, i \in IdChoices, r \in BOOLEAN}

InitializeMessages ==
    {Message("2.0", i, TRUE, "initialize", FALSE, p) :
        i \in IdChoices, p \in InitializeParams}

CallToolMessages ==
    {Message("2.0", i, TRUE, "tools/call", FALSE, p) :
        i \in IdChoices, p \in CallToolParams}

\* a body that is not JSON
DOC_GARBAGE ==
    Document(9, FALSE, FALSE, "", FALSE, FALSE, "", FALSE, JSON_NULL)
\* a JSON array
DOC_JSON_ARRAY ==
    Document(2, TRUE, FALSE, "", FALSE, FALSE, "", FALSE, JSON_NULL)

McpDocuments ==
    {DOC_EMPTY, DOC_GARBAGE, DOC_JSON_ARRAY} \cup Envelopes
        \cup InitializeMessages \cup CallToolMessages

\* CONTENT_LENGTH as the server sets it for the body: the length of a
\* body that is not empty; for an empty body "0", the empty string, or no
\* CONTENT_LENGTH key at all
ContentLengths(doc) ==
    IF doc.len > 0 THEN {[has |-> TRUE, value |-> str(doc.len)]}
    ELSE {[has |-> TRUE, value |-> <<"0">>], [has |-> TRUE, value |-> <<>>],
          [has |-> FALSE, value |-> <<>>]}

\* the environ of a POST to the MCP route from the local machine
McpEnviron(doc, content_length) ==
    [Environ(<<PATH_EMPTY, ROUTE_MCP>>, METHOD_POST, ADDR_LOCAL,
             [has |-> FALSE, value |-> <<>>], doc)
        EXCEPT !.has_content_length = content_length.has,
               !.CONTENT_LENGTH = content_length.value]

\* timeouts given to project_eval, in milliseconds
EvalTimeouts == {0 - 5, 0, 50, 1500, 30000}

\* what evaluated code can do when it ends: 1 + 1; print("hi") with
\* result = 3; statements without a result; sys.stderr.write("warn");
\* 1 / 0; an expression whose value reads like the timeout message
Evaluations ==
    { Evaluation("expression", TEXT_TWO, FALSE, <<>>, <<>>),
      Evaluation("statements", TEXT_THREE, TRUE, TEXT_HI, <<>>),
      Evaluation("statements", <<>>, FALSE, <<>>, <<>>),
      Evaluation("statements", <<>>, FALSE, <<>>, TEXT_WARN),
      Evaluation("exception", TEXT_DIVISION, FALSE, <<>>, <<>>),
      Evaluation("expression", TEXT_FAKE_TIMEOUT, FALSE, <<>>, <<>>) }

\* the most processes the evaluated code forks
MaxDescendants == 1

\* a JSON array of the items
JsonArray(items) == JsonValue("array", "[...]", FALSE, items)

\* bodies of POST /shell: their "command" member
DOC_COMMAND_LIST ==
    [DOC_COMMAND EXCEPT
        !.command = JsonArray(<<JsonString("echo", FALSE),
                                JsonString("hi", FALSE)>>)]
DOC_COMMAND_MISSING_PROGRAM ==
    [DOC_COMMAND EXCEPT
        !.command = JsonArray(<<JsonString("no-such-program", FALSE)>>)]
DOC_COMMAND_NUMBERS ==
    [DOC_COMMAND EXCEPT
        !.command = JsonArray(<<JsonNumber("1"), JsonNumber("2")>>)]
DOC_COMMAND_EMPTY_LIST == [DOC_COMMAND EXCEPT !.command = JSON_ARRAY]
DOC_COMMAND_EMPTY_STRING ==
    [DOC_COMMAND EXCEPT !.command = JsonString("", FALSE)]
DOC_COMMAND_ABSENT == [DOC_COMMAND EXCEPT !.command = JSON_NULL]
DOC_COMMAND_NUMBER == [DOC_COMMAND EXCEPT !.command = JsonNumber("5")]
DOC_COMMAND_ZERO == [DOC_COMMAND EXCEPT !.command = JsonNumber("0")]
DOC_COMMAND_TRUE ==
    [DOC_COMMAND EXCEPT !.command = JsonValue("boolean", "true", FALSE, <<>>)]
DOC_COMMAND_OBJECT ==
    [DOC_COMMAND EXCEPT
        !.command = JsonObject(<<Item("a", JsonNumber("1"))>>)]

ShellDocuments ==
    {DOC_EMPTY, DOC_GARBAGE, DOC_JSON_ARRAY, DOC_COMMAND, DOC_COMMAND_LIST,
     DOC_COMMAND_MISSING_PROGRAM, DOC_COMMAND_NUMBERS,
     DOC_COMMAND_EMPTY_LIST, DOC_COMMAND_EMPTY_STRING, DOC_COMMAND_ABSENT,
     DOC_COMMAND_NUMBER, DOC_COMMAND_ZERO, DOC_COMMAND_TRUE,
     DOC_COMMAND_OBJECT}

\* n bytes "x"
Bytes(n) == [i \in 1..n |-> 120]

\* what a command writes to its stdout and stderr: nothing, "hi\n", or
\* more than one read takes
CommandOutputs == {<<>>, <<104, 105, 10>>, Bytes(READ_SIZE + 3)}

\* the status a command exits with; negative when a signal killed it
ExitStatuses == {0, 3, ERROR_STATUS, 0 - 9}

\* the environ of a POST to the shell route from the local machine
ShellEnviron(doc, content_length) ==
    [Environ(<<PATH_EMPTY, ROUTE_SHELL>>, METHOD_POST, ADDR_LOCAL,
             [has |-> FALSE, value |-> <<>>], doc)
        EXCEPT !.has_content_length = content_length.has,
               !.CONTENT_LENGTH = content_length.value]

---------------------------------------------------------------------------
(* The state machine: a configured middleware serves one request at a      *)
(* time; the server then consumes the response and the next request        *)
(* arrives.                                                                *)

IdleEnviron == Environ(<<PATH_EMPTY, PATH_EMPTY>>, <<>>, <<>>,
                       [has |-> FALSE, value |-> <<>>], DOC_EMPTY)

\* no project_eval call is in progress
EvalIdle ==
    /\ eval_pc = "idle"
    /\ eval_args = EvalArgs(0, FALSE)
    /\ process = NoProcess
    /\ descendants = 0
    /\ queue = <<>>
    /\ eval_outcome = NoOutcome
    /\ eval_timed_out = FALSE
    /\ eval_response = NotReturned

\* no chunk stream exists
StreamIdle ==
    /\ gen_pc = "none"
    /\ popen = NoPopen
    /\ pipe = <<>>
    /\ chunks = <<>>
    /\ gen_raised = FALSE

\* no header value is being rewritten
CspIdle == csp_history = <<>>

Idle ==
    /\ pc = "idle"
    /\ environ = IdleEnviron
    /\ status = 0
    /\ body = NoBody
    /\ calls = <<>>
    /\ app_args = <<>>
    /\ started = 0
    /\ spawned = 0
    /\ raised = FALSE
    /\ host_headers = <<>>
    /\ resp_headers = <<>>
    /\ tool_calls = <<>>
    /\ EvalIdle
    /\ StreamIdle

\* the handler constructed with the functions: MCPHandler(tool_functions)
Constructed(functions) ==
    /\ tool_functions = functions
    /\ tools = _init_tools(functions, <<>>).tools

Init ==
    /\ config \in Configs
    /\ Idle
    /\ CspIdle
    /\ Constructed(TEST_TOOL_FUNCTIONS)

InitFlask ==
    /\ config \in FlaskConfigs
    /\ Idle
    /\ CspIdle
    /\ Constructed(FLASK_TOOL_FUNCTIONS)

\* a server whose registry loses its tools when a request is refused
Serve_registry_cleared_on_refusal(env, host, resp) ==
    /\ pc' = "responded"
    /\ environ' = env
    /\ status' = resp.status
    /\ body' = resp.body
    /\ calls' = resp.calls
    /\ app_args' = resp.app_args
    /\ started' = resp.started
    /\ spawned' = resp.spawned
    /\ raised' = resp.raised
    /\ host_headers' = IF Len(resp.app_args) > 0 THEN host.headers ELSE <<>>
    /\ resp_headers' = resp.headers
    /\ tool_calls' = resp.tool_calls
    /\ tools' = IF resp.status = HTTP_FORBIDDEN THEN <<>> ELSE tools
    /\ UNCHANGED <<config, tool_functions>>
    /\ UNCHANGED <<eval_vars, stream_vars, csp_history>>

\* the server records what the entry point did with the request
Serve(env, host, resp) ==
    /\ pc' = "responded"
    /\ environ' = env
    /\ status' = resp.status
    /\ body' = resp.body
    /\ calls' = resp.calls
    /\ app_args' = resp.app_args
    /\ started' = resp.started
    /\ spawned' = resp.spawned
    /\ raised' = resp.raised
    /\ host_headers' = IF Len(resp.app_args) > 0 THEN host.headers ELSE <<>>
    /\ resp_headers' = resp.headers
    /\ tool_calls' = resp.tool_calls
    /\ UNCHANGED <<config, tool_functions, tools>>
    /\ UNCHANGED <<eval_vars, stream_vars, csp_history>>

\* a request served by Middleware.__call__
MiddlewareCall ==
    /\ pc = "idle"
    /\ \E env \in Environs, host \in HostResponses :
          Serve(env, host, Middleware__call__(config, env, host))

\* a request served by the Flask adapter's __call__
FlaskCall ==
    /\ pc = "idle"
    /\ \E env \in FlaskEnvirons, host \in FlaskHostResponses :
          Serve(env, host, FlaskMiddleware__call__(config, env, host))

\* the response has been delivered; the middleware waits for a request
ResponseDone ==
    /\ pc = "responded"
    /\ pc' = "idle"
    /\ environ' = IdleEnviron
    /\ status' = 0
    /\ body' = NoBody
    /\ calls' = <<>>
    /\ app_args' = <<>>
    /\ started' = 0
    /\ spawned' = 0
    /\ raised' = FALSE
    /\ host_headers' = <<>>
    /\ resp_headers' = <<>>
    /\ tool_calls' = <<>>
    /\ UNCHANGED <<config, tool_functions, tools>>
    /\ UNCHANGED <<eval_vars, stream_vars, csp_history>>

Next == MiddlewareCall \/ ResponseDone

Spec == Init /\ [][Next]_vars

NextFlask == FlaskCall \/ ResponseDone

SpecFlask == InitFlask /\ [][NextFlask]_vars

\* before MCPHandler(tool_functions) has run
InitMCP ==
    /\ pc = "new"
    /\ config = [allow_remote_access |-> FALSE,
                 has_allowed_origins |-> FALSE, allowed_origins |-> <<>>,
                 use_script_name |-> FALSE]
    /\ environ = IdleEnviron
    /\ status = 0
    /\ body = NoBody
    /\ calls = <<>>
    /\ app_args = <<>>
    /\ started = 0
    /\ spawned = 0
    /\ raised = FALSE
    /\ host_headers = <<>>
    /\ resp_headers = <<>>
    /\ tool_calls = <<>>
    /\ tool_functions \in ToolFunctionLists
    /\ tools = <<>>
    /\ EvalIdle
    /\ StreamIdle
    /\ CspIdle

\* MCPHandler.__init__: the registry is built, or the constructor raises
\* and no handler exists
MCPHandlerInit ==
    /\ pc = "new"
    /\ LET built == _init_tools(tool_functions, <<>>) IN
       /\ pc' = IF built.raised THEN "failed" ELSE "idle"
       /\ tools' = built.tools
    /\ UNCHANGED <<config, environ, status, body, calls, app_args, started,
                   spawned, raised, host_headers, resp_headers,
                   tool_functions, tool_calls>>
    /\ UNCHANGED <<eval_vars, stream_vars, csp_history>>

\* a request body handed to MCPHandler.handle_request
HandleRequest ==
    /\ pc = "idle"
    /\ \E doc \in McpDocuments :
       \E content_length \in ContentLengths(doc) :
          LET env == McpEnviron(doc, content_length) IN
          Serve(env, CHOOSE host \in HostResponses : TRUE,
                handle_request(tools, env))

NextMCP == MCPHandlerInit \/ HandleRequest \/ ResponseDone

SpecMCP == InitMCP /\ [][NextMCP]_vars

\* requests to the MCP route as Middleware.__call__ receives them: from
\* the local machine or from another one, with or without an Origin header
GatedEnvirons ==
    {Environ(<<PATH_EMPTY, ROUTE_MCP>>, METHOD_POST, addr, origin, doc) :
        addr \in {ADDR_LOCAL, ADDR_LAN},
        origin \in {[has |-> FALSE, value |-> <<>>],
                    [has |-> TRUE, value |-> ORIGIN_LOCALHOST],
                    [has |-> TRUE, value |-> ORIGIN_NOTEXAMPLE]},
        doc \in {Message("2.0", [has |-> TRUE, id |-> "7"], TRUE, method,
                         FALSE, NoParams) :
                    method \in {"ping", "tools/list"}}}

\* a request to the MCP route served by Middleware.__call__, which runs the
\* security gate before the handler
GatedRequest ==
    /\ pc = "idle"
    /\ \E env \in GatedEnvirons :
          LET host == CHOOSE h \in HostResponses : TRUE IN
          Serve(env, host, Middleware__call__(config, env, host))

\* the handler is constructed once; then requests are served, directly by
\* the handler or through the middleware
NextServer == MCPHandlerInit \/ HandleRequest \/ GatedRequest \/ ResponseDone

SpecServer == InitMCP /\ [][NextServer]_vars

---------------------------------------------------------------------------
(* project_eval as a state machine: the parent's steps, the child's, and  *)
(* the kernel's delivery of SIGTERM                                        *)

InitEval ==
    /\ config = [allow_remote_access |-> FALSE,
                 has_allowed_origins |-> FALSE, allowed_origins |-> <<>>,
                 use_script_name |-> FALSE]
    /\ Idle
    /\ CspIdle
    /\ Constructed(TEST_TOOL_FUNCTIONS)

\* project_eval, lines 37-41: the queue is made and the child started
ProjectEvalCall ==
    /\ eval_pc = "idle"
    /\ \E timeout \in EvalTimeouts, json \in BOOLEAN :
          eval_args' = EvalArgs(timeout, json)
    /\ process' = Process("running", "default", FALSE, FALSE, FALSE, 0)
    /\ queue' = <<>>
    /\ eval_pc' = "get"
    /\ UNCHANGED <<descendants, eval_outcome, eval_timed_out, eval_response>>
    /\ UNCHANGED <<server_vars, stream_vars, csp_history>>

\* queue.get(timeout=timeout) returns the output the child has put
QueueGet ==
    /\ eval_pc = "get"
    /\ Len(queue) > 0
    /\ eval_outcome' = received(Head(queue))
    /\ queue' = Tail(queue)
    /\ eval_pc' = "join"
    /\ UNCHANGED <<eval_args, process, descendants, eval_timed_out,
                   eval_response>>
    /\ UNCHANGED <<server_vars, stream_vars, csp_history>>

\* queue.get(timeout=timeout) raises Empty: the timeout expired with
\* nothing on the queue
QueueEmpty ==
    /\ eval_pc = "get"
    /\ Len(queue) = 0
    /\ eval_timed_out' = TRUE
    /\ eval_pc' = "terminate"
    /\ UNCHANGED <<eval_args, process, descendants, queue, eval_outcome,
                   eval_response>>
    /\ UNCHANGED <<server_vars, stream_vars, csp_history>>

\* process.terminate(): SIGTERM is sent to the child, and to it alone
ProcessTerminate ==
    /\ eval_pc = "terminate"
    /\ process' = [process EXCEPT !.signalled = (process.state = "running")]
    /\ eval_pc' = "join"
    /\ UNCHANGED <<eval_args, descendants, queue, eval_outcome,
                   eval_timed_out, eval_response>>
    /\ UNCHANGED <<server_vars, stream_vars, csp_history>>

\* process.join() returns once the child has exited; the rest of
\* project_eval runs to its return
ProcessJoin ==
    /\ eval_pc = "join"
    /\ process.state = "exited"
    /\ process' = [process EXCEPT !.joined = TRUE]
    /\ LET outcome == IF eval_timed_out THEN timed_out(eval_args.timeout)
                      ELSE eval_outcome
       IN  /\ eval_outcome' = outcome
           /\ eval_response' = format_response(eval_args.json, outcome)
    /\ eval_pc' = "returned"
    /\ UNCHANGED <<eval_args, descendants, queue, eval_timed_out>>
    /\ UNCHANGED <<server_vars, stream_vars, csp_history>>

\* the evaluated code sets SIGTERM to be ignored or handled
ChildIgnoresSigterm ==
    /\ process.state = "running"
    /\ ~process.delivered
    /\ process.sigterm = "default"
    /\ process' = [process EXCEPT !.sigterm = "ignored"]
    /\ UNCHANGED <<eval_pc, eval_args, descendants, queue, eval_outcome,
                   eval_timed_out, eval_response>>
    /\ UNCHANGED <<server_vars, stream_vars, csp_history>>

\* the evaluated code starts a process of its own
ChildForks ==
    /\ process.state = "running"
    /\ ~process.delivered
    /\ descendants < MaxDescendants
    /\ descendants' = descendants + 1
    /\ UNCHANGED <<eval_pc, eval_args, process, queue, eval_outcome,
                   eval_timed_out, eval_response>>
    /\ UNCHANGED <<server_vars, stream_vars, csp_history>>

\* execute_code reaches queue.put
ChildDelivers ==
    /\ process.state = "running"
    /\ ~process.delivered
    /\ \E evaluation \in Evaluations :
          queue' = Append(queue, execute_code(evaluation))
    /\ process' = [process EXCEPT !.delivered = TRUE]
    /\ UNCHANGED <<eval_pc, eval_args, descendants, eval_outcome,
                   eval_timed_out, eval_response>>
    /\ UNCHANGED <<server_vars, stream_vars, csp_history>>

\* the child exits once execute_code has returned
ChildExits ==
    /\ process.state = "running"
    /\ process.delivered
    /\ process' = [process EXCEPT !.state = "exited", !.exitcode = 0,
                                  !.signalled = FALSE]
    /\ UNCHANGED <<eval_pc, eval_args, descendants, queue, eval_outcome,
                   eval_timed_out, eval_response>>
    /\ UNCHANGED <<server_vars, stream_vars, csp_history>>

\* the child ends without an output: os._exit, SystemExit, a crash, or an
\* output that cannot be pickled
ChildDies ==
    /\ process.state = "running"
    /\ ~process.delivered
    /\ process' = [process EXCEPT !.state = "exited", !.exitcode = 1,
                                  !.signalled = FALSE]
    /\ UNCHANGED <<eval_pc, eval_args, descendants, queue, eval_outcome,
                   eval_timed_out, eval_response>>
    /\ UNCHANGED <<server_vars, stream_vars, csp_history>>

\* the kernel delivers the pending SIGTERM: the child dies of it unless
\* it ignores or handles the signal
SigtermArrives ==
    /\ process.state = "running"
    /\ process.signalled
    /\ process' = IF process.sigterm = "default"
                  THEN [process EXCEPT !.state = "exited",
                                       !.exitcode = SIGTERM_EXITCODE,
                                       !.signalled = FALSE]
                  ELSE [process EXCEPT !.signalled = FALSE]
    /\ UNCHANGED <<eval_pc, eval_args, descendants, queue, eval_outcome,
                   eval_timed_out, eval_response>>
    /\ UNCHANGED <<server_vars, stream_vars, csp_history>>

\* a process the evaluated code started ends by itself
DescendantExits ==
    /\ descendants > 0
    /\ descendants' = descendants - 1
    /\ UNCHANGED <<eval_pc, eval_args, process, queue, eval_outcome,
                   eval_timed_out, eval_response>>
    /\ UNCHANGED <<server_vars, stream_vars, csp_history>>

ParentNext ==
    QueueGet \/ QueueEmpty \/ ProcessTerminate \/ ProcessJoin

NextEval ==
    \/ ProjectEvalCall
    \/ ParentNext
    \/ ChildIgnoresSigterm
    \/ ChildForks
    \/ ChildDelivers
    \/ ChildExits
    \/ ChildDies
    \/ SigtermArrives
    \/ DescendantExits

SpecEval == InitEval /\ [][NextEval]_vars

\* the parent runs when it can, the kernel delivers signals, and a child
\* whose execute_code has returned exits; the evaluated code itself may
\* run forever
SpecEvalFair ==
    /\ SpecEval
    /\ WF_vars(QueueGet)
    /\ WF_vars(QueueEmpty)
    /\ WF_vars(ProcessTerminate)
    /\ WF_vars(ProcessJoin)
    /\ WF_vars(SigtermArrives)
    /\ WF_vars(ChildExits)

---------------------------------------------------------------------------
(* POST /shell as a state machine: the handler answers, the server pulls  *)
(* the chunks of the generator or abandons it, and the command runs        *)

InitShell ==
    /\ config = [allow_remote_access |-> FALSE,
                 has_allowed_origins |-> FALSE, allowed_origins |-> <<>>,
                 use_script_name |-> FALSE]
    /\ Idle
    /\ CspIdle
    /\ Constructed(TEST_TOOL_FUNCTIONS)

\* Middleware._handle_shell_command answers the request; for a command it
\* returns the generator, whose body has not started
ShellRequest ==
    /\ pc = "idle"
    /\ \E doc \in ShellDocuments :
       \E content_length \in ContentLengths(doc) :
          LET env == ShellEnviron(doc, content_length)
              resp == _handle_shell_command(env)
          IN  /\ environ' = env
              /\ status' = resp.status
              /\ body' = resp.body
              /\ calls' = resp.calls
              /\ started' = resp.started
              /\ raised' = resp.raised
              /\ gen_pc' = IF resp.body.kind = "chunks" THEN "created"
                           ELSE "none"
    /\ pc' = "responded"
    /\ UNCHANGED <<config, app_args, spawned, host_headers, resp_headers,
                   tool_functions, tools, tool_calls>>
    /\ UNCHANGED <<popen, pipe, chunks, gen_raised>>
    /\ UNCHANGED <<eval_vars, csp_history>>

\* the first next(): subprocess.Popen and process.stdin.close(), or the
\* except branch when Popen raises
GenStart ==
    /\ gen_pc = "created"
    /\ LET cmd == environ.wsgi_input.command IN
       IF popen_starts(cmd)
       THEN /\ \E output \in CommandOutputs, exit_status \in ExitStatuses,
                  high_fd \in BOOLEAN :
                  popen' = Popen("running", output, exit_status, high_fd,
                                 FALSE)
            /\ spawned' = spawned + 1
            /\ gen_pc' = "loop"
            /\ UNCHANGED <<chunks, gen_raised>>
       ELSE /\ chunks' = Append(chunks, error_chunk)
            /\ gen_raised' = TRUE
            /\ gen_pc' = "error"
            /\ UNCHANGED <<popen, spawned>>
    /\ UNCHANGED <<config, environ, pc, status, body, calls, app_args,
                   started, raised, host_headers, resp_headers,
                   tool_functions, tools, tool_calls>>
    /\ UNCHANGED pipe
    /\ UNCHANGED <<eval_vars, csp_history>>

\* select.select raises ValueError for a descriptor out of its range; the
\* except branch sends the error status
GenSelectRaises ==
    /\ gen_pc = "loop"
    /\ popen.high_fd
    /\ chunks' = Append(chunks, error_chunk)
    /\ gen_raised' = TRUE
    /\ gen_pc' = "error"
    /\ UNCHANGED <<popen, pipe>>
    /\ UNCHANGED <<server_vars, eval_vars, csp_history>>

\* select.select([process.stdout], [], [], 0.1) returns: with the pipe
\* when it holds data or is at end of file, and empty at the timeout
GenSelect ==
    /\ gen_pc = "loop"
    /\ ~popen.high_fd
    /\ gen_pc' = IF Len(pipe) > 0 \/ popen.state = "exited"
                 THEN "read" ELSE "poll"
    /\ UNCHANGED <<popen, pipe, chunks, gen_raised>>
    /\ UNCHANGED <<server_vars, eval_vars, csp_history>>

\* process.stdout.read(4096) returns data, which is yielded: 4096 bytes,
\* or what is left when the command has closed its stdout
GenRead ==
    /\ gen_pc = "read"
    /\ Len(pipe) > 0
    /\ \/ Len(pipe) >= READ_SIZE
       \/ popen.state = "exited"
    /\ LET n == IF Len(pipe) >= READ_SIZE THEN READ_SIZE ELSE Len(pipe)
           data == SubSeq(pipe, 1, n)
       IN  /\ chunks' = Append(chunks, pack_chunk(0, data))
           /\ pipe' = SubSeq(pipe, n + 1, Len(pipe))
    /\ gen_pc' = "loop"
    /\ UNCHANGED <<popen, gen_raised>>
    /\ UNCHANGED <<server_vars, eval_vars, csp_history>>

\* the read returns b"": the loop ends, process.wait() gives the exit
\* status and the status chunk is sent
GenEof ==
    /\ gen_pc = "read"
    /\ popen.state = "exited"
    /\ Len(pipe) = 0
    /\ popen' = [popen EXCEPT !.reaped = TRUE]
    /\ chunks' = Append(chunks, status_chunk(popen.exit_status))
    /\ gen_pc' = "status"
    /\ UNCHANGED <<pipe, gen_raised>>
    /\ UNCHANGED <<server_vars, eval_vars, csp_history>>

\* after a select timeout, process.poll(): when the command has exited the
\* loop ends without another read, process.wait() gives the exit status
\* and the status chunk is sent; otherwise the loop goes on
GenPoll ==
    /\ gen_pc = "poll"
    /\ IF popen.state = "exited"
       THEN /\ popen' = [popen EXCEPT !.reaped = TRUE]
            /\ chunks' = Append(chunks, status_chunk(popen.exit_status))
            /\ gen_pc' = "status"
       ELSE /\ gen_pc' = "loop"
            /\ UNCHANGED <<popen, chunks>>
    /\ UNCHANGED <<pipe, gen_raised>>
    /\ UNCHANGED <<server_vars, eval_vars, csp_history>>

\* next() after the last chunk: the generator returns
GenReturn ==
    /\ gen_pc \in {"status", "error"}
    /\ gen_pc' = "finished"
    /\ popen' = dropped(popen)
    /\ UNCHANGED <<pipe, chunks, gen_raised>>
    /\ UNCHANGED <<server_vars, eval_vars, csp_history>>

\* the server closes the generator before it has returned: before the
\* first next(), or at a yield (GeneratorExit is no Exception, so neither
\* the except branch nor process.wait() runs)
ConsumerAbandons ==
    /\ \/ gen_pc \in {"created", "status", "error"}
       \/ gen_pc = "loop" /\ Len(chunks) > 0
    /\ gen_pc' = "closed"
    /\ popen' = dropped(popen)
    /\ UNCHANGED <<pipe, chunks, gen_raised>>
    /\ UNCHANGED <<server_vars, eval_vars, csp_history>>

\* the command writes its output
CommandWrites ==
    /\ popen.state = "running"
    /\ Len(popen.output) > 0
    /\ pipe' = pipe \o popen.output
    /\ popen' = [popen EXCEPT !.output = <<>>,
                              !.written = @ \o popen.output]
    /\ UNCHANGED <<gen_pc, chunks, gen_raised>>
    /\ UNCHANGED <<server_vars, eval_vars, csp_history>>

\* the command exits, which closes its end of the pipe
CommandExits ==
    /\ popen.state = "running"
    /\ Len(popen.output) = 0
    /\ popen' = [popen EXCEPT !.state = "exited"]
    /\ UNCHANGED <<gen_pc, pipe, chunks, gen_raised>>
    /\ UNCHANGED <<server_vars, eval_vars, csp_history>>

NextShell ==
    \/ ShellRequest
    \/ GenStart
    \/ GenSelectRaises
    \/ GenSelect
    \/ GenRead
    \/ GenEof
    \/ GenPoll
    \/ GenReturn
    \/ ConsumerAbandons
    \/ CommandWrites
    \/ CommandExits

SpecShell == InitShell /\ [][NextShell]_vars

---------------------------------------------------------------------------
(* modify_csp applied to a header value, and to its own result *)

\* "Frame-Ancestors"
FRAME_ANCESTORS_MIXED ==
    <<"F", "r", "a", "m", "e", "-",
      "A", "n", "c", "e", "s", "t", "o", "r", "s">>
\* "Script-Src"
SCRIPT_SRC_MIXED ==
    <<"S", "c", "r", "i", "p", "t", "-", "S", "r", "c">>

\* the pieces header values are put together from
CspTokens ==
    {SCRIPT_SRC, SCRIPT_SRC_MIXED, FRAME_ANCESTORS_MIXED, UNSAFE_EVAL,
     <<"a">>, <<" ">>, <<"\t">>, <<";">>}

\* the most pieces in a header value
MaxTokens == 3

\* the most times the value is passed through modify_csp
MaxApplications == 2

RECURSIVE CspValuesOf(_)
CspValuesOf(n) ==
    IF n = 0 THEN {<<>>}
    ELSE LET shorter == CspValuesOf(n - 1) IN
         shorter \cup {value \o token : value \in shorter, token \in CspTokens}

CspValues == CspValuesOf(MaxTokens)

InitCsp ==
    /\ config = [allow_remote_access |-> FALSE,
                 has_allowed_origins |-> FALSE, allowed_origins |-> <<>>,
                 use_script_name |-> FALSE]
    /\ Idle
    /\ Constructed(TEST_TOOL_FUNCTIONS)
    /\ csp_history \in {<<value>> : value \in CspValues}

\* the value last produced is passed through modify_csp
ModifyCsp ==
    /\ Len(csp_history) >= 1
    /\ Len(csp_history) <= MaxApplications
    /\ csp_history' =
           Append(csp_history, modify_csp(csp_history[Len(csp_history)]))
    /\ UNCHANGED <<server_vars, eval_vars, stream_vars>>

NextCsp == ModifyCsp

SpecCsp == InitCsp /\ [][NextCsp]_vars

---------------------------------------------------------------------------
(* Properties of the security gate and the router *)

Responded == pc = "responded"

FullPath == full_path_of(config, environ)

\* the path is the mount prefix or the prefix followed by a "/" segment
UnderPrefix ==
    \/ FullPath = TIDEWAVE_PREFIX
    \/ startswith(FullPath, TIDEWAVE_PREFIX \o <<"/">>)

\* the request was answered 403 by the security gate, with the message of
\* the given kind
RejectedAs(kind) ==
    /\ status = HTTP_FORBIDDEN
    /\ body = Body("text", security_message(kind), 0)

\* nothing behind the gate ran: no handler, no host application, no child
NothingInvoked == calls = <<>> /\ app_args = <<>> /\ spawned = 0

\* the parsed Origin header of the request
ParsedOrigin == urlparse_hostname(environ.HTTP_ORIGIN)

\* the request carries an Origin header with a value
CarriesOrigin == environ.has_origin /\ Len(environ.HTTP_ORIGIN) > 0

\* the request got through the security gate
PassedGate == ~raised /\ status # HTTP_FORBIDDEN

\* the value of a decimal octet of one to three digits, -1 for other text
OctetValue(s) ==
    IF Len(s) \in 1..3 /\ \A i \in 1..Len(s) : s[i] \in ASCII_DIGITS
    THEN IF Len(s) = 1 THEN DigitValue(s[1])
         ELSE IF Len(s) = 2 THEN 10 * DigitValue(s[1]) + DigitValue(s[2])
         ELSE 100 * DigitValue(s[1]) + 10 * DigitValue(s[2])
                + DigitValue(s[3])
    ELSE -1

\* a dotted quad in 127.0.0.0/8
IsLoopbackV4(s) ==
    LET octets == split(s, ".") IN
    /\ Len(octets) = 4
    /\ \A i \in 1..4 : OctetValue(octets[i]) \in 0..255
    /\ OctetValue(octets[1]) = 127

\* "::ffff:" followed by a dotted quad in 127.0.0.0/8
IsMappedLoopback(s) ==
    LET mapped == <<":", ":", "f", "f", "f", "f", ":">> IN
    /\ startswith(lower(s), mapped)
    /\ IsLoopbackV4(slice_from(s, Len(mapped)))

\* a local address: IPv4 loopback, IPv6 loopback, IPv4-mapped loopback
IsLocalAddress(s) ==
    IsLoopbackV4(s) \/ s = <<":", ":", "1">> \/ IsMappedLoopback(s)

\* C1: a request under the /tidewave prefix from an address that is not
\* local is answered 403 when allow_remote_access is false, and no
\* handler, host application or child process runs for it, whatever the
\* path suffix, method, body and Origin header.
C1_RemoteAddressRejected ==
    (/\ Responded
     /\ UnderPrefix
     /\ ~config.allow_remote_access
     /\ ~IsLocalAddress(environ.REMOTE_ADDR))
        => RejectedAs("remote") /\ NothingInvoked

\* C2: with allow_remote_access false, the gate lets an address through as
\* local exactly when it is in 127.0.0.0/8, is ::1 or is an IPv4-mapped
\* loopback address; every other string is rejected as remote.
C2_LocalIffLoopback ==
    (Responded /\ UnderPrefix /\ ~config.allow_remote_access)
        => (~RejectedAs("remote") <=> IsLocalAddress(environ.REMOTE_ADDR))

\* C3: a request under the prefix with an Origin header whose host name
\* cannot be parsed is answered 403, whatever allowed_origins holds.
C3_UnparseableOriginRejected ==
    (/\ Responded
     /\ UnderPrefix
     /\ CarriesOrigin
     /\ ParsedOrigin.kind # "host")
        => status = HTTP_FORBIDDEN

\* p matches h as the allowed_origins patterns are documented to: "*",
\* equality ignoring case, or a leading-dot pattern against the bare
\* domain and its subdomains
PatternAccepts(p, h) ==
    \/ p = <<"*">>
    \/ lower(p) = lower(h)
    \/ /\ Len(p) > 0
       /\ p[1] = "."
       /\ \/ lower(h) = lower(Tail(p))
          \/ /\ Len(h) > Len(p)
             /\ lower(SubSeq(h, Len(h) - Len(p) + 1, Len(h))) = lower(p)

\* C4: with a non-empty allowed_origins and a parseable Origin host h, the
\* request passes the origin check exactly when some pattern of the list
\* accepts h; otherwise it is answered 403 and nothing is invoked.
C4_OriginPatternMatch ==
    (/\ Responded
     /\ UnderPrefix
     /\ _validate_ip(config, environ.REMOTE_ADDR)
     /\ config.has_allowed_origins
     /\ Len(config.allowed_origins) > 0
     /\ CarriesOrigin
     /\ ParsedOrigin.kind = "host")
        => IF \E i \in 1..Len(config.allowed_origins) :
                 PatternAccepts(config.allowed_origins[i],
                                ParsedOrigin.hostname)
           THEN PassedGate
           ELSE RejectedAs("not_allowed") /\ NothingInvoked

\* C4: the host notexample.com is rejected against the pattern .example.com
C4_Witness ==
    /\ Responded
    /\ FullPath = ROUTE_MCP
    /\ config.has_allowed_origins
    /\ config.allowed_origins = <<PATTERN_DOT_EXAMPLE>>
    /\ environ.HTTP_ORIGIN = ORIGIN_NOTEXAMPLE
    /\ RejectedAs("not_allowed")

\* a host of the local development set {.localhost, 127.0.0.1, ::1}
IsLocalOriginHost(h) ==
    \/ h = HOST_LOCALHOST
    \/ endswith(h, <<".">> \o HOST_LOCALHOST)
    \/ h = HOST_V4
    \/ h = HOST_V6

\* C5: with allowed_origins the empty list, an Origin whose host is in the
\* local set is accepted and every other Origin host is answered 403.
C5_EmptyListFallsBackToLocal ==
    (/\ Responded
     /\ UnderPrefix
     /\ _validate_ip(config, environ.REMOTE_ADDR)
     /\ config.has_allowed_origins
     /\ Len(config.allowed_origins) = 0
     /\ CarriesOrigin
     /\ ParsedOrigin.kind = "host")
        => IF IsLocalOriginHost(ParsedOrigin.hostname)
           THEN PassedGate
           ELSE status = HTTP_FORBIDDEN

\* C6: without the allowed_origins key, local origins are accepted; with
\* allowed_origins the empty list, every request that carries an Origin
\* header is answered 403.
C6_AbsentKeyDefaultsEmptyListBlocks ==
    (/\ Responded
     /\ UnderPrefix
     /\ _validate_ip(config, environ.REMOTE_ADDR)
     /\ CarriesOrigin)
        => /\ (/\ ~config.has_allowed_origins
               /\ ParsedOrigin.kind = "host"
               /\ IsLocalOriginHost(ParsedOrigin.hostname))
                  => PassedGate
           /\ (config.has_allowed_origins /\ Len(config.allowed_origins) = 0)
                  => status = HTTP_FORBIDDEN

\* C7: a request under the prefix without an Origin header, from an
\* address the gate accepts, is never answered 403, whatever
\* allowed_origins holds.
C7_MissingOriginPermitted ==
    (/\ Responded
     /\ UnderPrefix
     /\ ~environ.has_origin
     /\ _validate_ip(config, environ.REMOTE_ADDR))
        => PassedGate

\* C7: a request without Origin is served under an empty allowed_origins
C7_Witness ==
    /\ Responded
    /\ FullPath = ROUTE_MCP
    /\ ~environ.has_origin
    /\ ~config.allow_remote_access
    /\ config.has_allowed_origins
    /\ config.allowed_origins = <<>>
    /\ environ.REQUEST_METHOD = METHOD_POST
    /\ environ.wsgi_input = DOC_PING
    /\ status = HTTP_OK
    /\ calls = <<"handle_request">>

\* the request was answered 405 and no handler or child process ran
MethodRefused ==
    /\ status = HTTP_METHOD_NOT_ALLOWED
    /\ body = Body("text", "Method Not Allowed", 0)
    /\ NothingInvoked

\* C8, as stated: past the gate, /tidewave/config with a method other than
\* GET and /tidewave/mcp or /tidewave/shell with a method other than POST
\* is answered 405, with no handler invoked and no child started.
C8_WrongMethodRefused ==
    (Responded /\ UnderPrefix /\ PassedGate)
        => /\ (FullPath = ROUTE_CONFIG /\ environ.REQUEST_METHOD # METHOD_GET)
                => MethodRefused
           /\ (/\ FullPath \in {ROUTE_MCP, ROUTE_SHELL}
               /\ environ.REQUEST_METHOD # METHOD_POST)
                => MethodRefused

\* C8, amended: the method is compared ignoring letter case; a method that
\* is not GET (for /tidewave/config) or not POST (for /tidewave/mcp and
\* /tidewave/shell) in any letter case is answered 405, with no handler
\* invoked and no child started.
C8_WrongMethodRefusedIgnoringCase ==
    (Responded /\ UnderPrefix /\ PassedGate)
        => /\ (/\ FullPath = ROUTE_CONFIG
               /\ upper(environ.REQUEST_METHOD) # METHOD_GET)
                => MethodRefused
           /\ (/\ FullPath \in {ROUTE_MCP, ROUTE_SHELL}
               /\ upper(environ.REQUEST_METHOD) # METHOD_POST)
                => MethodRefused

\* C8: GET /tidewave/shell with a well-formed command body is refused
C8_Witness ==
    /\ Responded
    /\ FullPath = ROUTE_SHELL
    /\ environ.REQUEST_METHOD = METHOD_GET
    /\ environ.wsgi_input = DOC_COMMAND
    /\ MethodRefused

\* C9: a request whose path is neither the prefix nor the prefix followed
\* by a "/" segment goes to the host application exactly once, with the
\* environ unchanged and the application's answer returned; the security
\* gate is not applied to it.
C9_OutsidePrefixPassedThrough ==
    (Responded /\ ~UnderPrefix)
        => /\ calls = <<"app">>
           /\ app_args = <<environ>>
           /\ body.kind = "app"
           /\ resp_headers = host_headers
           /\ ~raised
           /\ started = 1

---------------------------------------------------------------------------
(* Properties of the header rewriting on pass-through responses *)

\* a pass-through request: its path does not begin with the prefix and it
\* was handed to the host application
PassedThrough ==
    /\ Responded
    /\ ~startswith(environ.PATH_INFO, TIDEWAVE_PREFIX)
    /\ Len(app_args) > 0

\* a header name without its letter case, for the names host responses use
FoldedName(name) ==
    IF name \in {"X-Frame-Options", "x-frame-options"}
    THEN "x-frame-options"
    ELSE IF name \in {"Content-Security-Policy", "content-security-policy"}
    THEN "content-security-policy"
    ELSE name

\* the values, in order, of the headers of the list with the folded name
ValuesOf(headers, folded) ==
    LET named == SelectSeq(headers, LAMBDA h : FoldedName(h.k) = folded)
    IN  [i \in 1..Len(named) |-> named[i].v]

\* C10: the response of a pass-through request reaches the client without
\* any X-Frame-Options header, in whatever letter case the host named it,
\* and with every Content-Security-Policy value replaced by modify_csp of
\* that value; none is added when the host sent none.
C10_PassThroughHeadersRewritten ==
    PassedThrough
        => /\ ValuesOf(resp_headers, "x-frame-options") = <<>>
           /\ LET sent == ValuesOf(host_headers, "content-security-policy")
              IN  ValuesOf(resp_headers, "content-security-policy")
                     = [i \in 1..Len(sent) |-> modify_csp(sent[i])]

---------------------------------------------------------------------------
(* Properties of the MCP handler *)

\* the request body given to MCPHandler.handle_request
McpMessage == environ.wsgi_input

\* handle_request answered the request
McpResponded == Responded /\ calls = <<"handle_request">>

\* the body was not empty and decoded as JSON
Parsed ==
    McpResponded /\ McpMessage.len > 0 /\ McpMessage.is_json

\* the message is a JSON-RPC 2.0 request, notification or response
WellFormed ==
    /\ Parsed
    /\ McpMessage.is_object
    /\ McpMessage.jsonrpc = "2.0"
    /\ \/ McpMessage.has_method
       \/ McpMessage.has_id /\ McpMessage.has_result

\* the response body is a JSON-RPC message
JsonRpcAnswer == body.kind \in {"jsonrpc_result", "jsonrpc_error"}

\* the response is the JSON-RPC error with the code
AnsweredError(code) ==
    /\ status = HTTP_OK
    /\ body.kind = "jsonrpc_error"
    /\ body.code = code

\* the response is only the acceptance: 202 with {"status": "ok"}
Acknowledged == status = HTTP_ACCEPTED /\ body = Body("json", "status ok", 0)

\* C11: a message with a method and without an id is answered only with
\* the 202 acceptance {status: ok}, never with a JSON-RPC result or error
\* body, whatever its method.
C11_NotificationOnlyAcknowledged ==
    (WellFormed /\ McpMessage.has_method /\ ~McpMessage.has_id)
        => Acknowledged

\* C12: a JSON-RPC body that answers a parsed message carrying an id has
\* that id, for results and for every error, the -32600 and -32603 ones
\* included.
C12_ResponseEchoesId ==
    (/\ Parsed
     /\ McpMessage.is_object
     /\ McpMessage.has_id
     /\ JsonRpcAnswer)
        => body.id = McpMessage.id

\* C13: an empty body is answered -32600; otherwise a body that is not
\* JSON is answered -32700; otherwise a message that is not a JSON-RPC 2.0
\* request, notification or response is answered -32600; each with HTTP
\* 200 and without any tool being called.
C13_EnvelopeFaultsClassified ==
    McpResponded =>
        IF McpMessage.len = 0
        THEN AnsweredError(JSONRPC_INVALID_REQUEST) /\ tool_calls = <<>>
        ELSE IF ~McpMessage.is_json
        THEN AnsweredError(JSONRPC_PARSE_ERROR) /\ tool_calls = <<>>
        ELSE ~WellFormed =>
                AnsweredError(JSONRPC_INVALID_REQUEST) /\ tool_calls = <<>>

\* a is lexicographically before b: at the first position where they
\* differ a ends or has the character with the smaller code point
LexOlder(a, b) ==
    \E i \in 1..Len(b) :
        /\ i - 1 <= Len(a)
        /\ \A j \in 1..(i - 1) : a[j] = b[j]
        /\ (i > Len(a) \/ ord(a[i]) < ord(b[i]))

\* the params of the message, when they are absent or an object
McpParams == McpMessage.params

\* an initialize message whose params are absent or an object, its
\* protocolVersion a string
InitializeRequest ==
    /\ WellFormed
    /\ McpMessage.has_method
    /\ McpMessage.method = "initialize"
    /\ McpParams.kind # "array"
    /\ McpParams.protocolVersion_type = "str"

\* the tool list a tools/list request is answered with
ListedTools ==
    _handle_list_tools(tools, "null", NoParams).response.result.tools

\* C14: initialize without params.protocolVersion is answered -32602, with
\* a version lexicographically older than PROTOCOL_VERSION -32602, and
\* with any other version a result carrying the server's PROTOCOL_VERSION,
\* the capabilities, the server identity and the tool list of tools/list.
C14_InitializeVersionChecked ==
    InitializeRequest =>
        IF McpParams.kind = "absent" \/ ~McpParams.has_protocolVersion
        THEN AnsweredError(JSONRPC_INVALID_PARAMS)
        ELSE IF LexOlder(McpParams.protocolVersion, PROTOCOL_VERSION)
        THEN AnsweredError(JSONRPC_INVALID_PARAMS)
        ELSE /\ status = HTTP_OK
             /\ body.kind = "jsonrpc_result"
             /\ body.result.tag = "initialize"
             /\ body.result.protocolVersion = PROTOCOL_VERSION
             /\ body.result.capabilities = "tools.listChanged: false"
             /\ body.result.serverInfo = "Python MCP Server 1.0.0"
             /\ body.result.tools = ListedTools

\* C14: an initialize with a version newer than the server's was answered
\* with a result by a handler that has tools
C14_Witness ==
    /\ InitializeRequest
    /\ McpParams.has_protocolVersion
    /\ McpParams.protocolVersion = VERSION_NEWER
    /\ body.kind = "jsonrpc_result"
    /\ Len(body.result.tools) > 0

\* a tools/call message whose params are absent or an object, its name
\* a string
CallToolRequest ==
    /\ WellFormed
    /\ McpMessage.has_method
    /\ McpMessage.method = "tools/call"
    /\ McpParams.kind # "array"
    /\ McpParams.name_type = "str"

\* params has the member "name"
NameGiven == McpParams.kind = "object" /\ McpParams.has_name

\* the registry has a tool of the name
Registered(name) == \E i \in 1..Len(tools) : tools[i].k = name

\* C15: tools/call without params.name is answered -32602, and with a name
\* that is not in the registry -32601; no tool function is called in
\* either case.
C15_CallToolNameChecked ==
    CallToolRequest =>
        /\ ~NameGiven
              => AnsweredError(JSONRPC_INVALID_PARAMS) /\ tool_calls = <<>>
        /\ (NameGiven /\ ~Registered(McpParams.name))
              => AnsweredError(JSONRPC_METHOD_NOT_FOUND) /\ tool_calls = <<>>

\* C15, with the empty name counted as no name: tools/call without
\* params.name or with the empty string as name is answered -32602, and
\* with a non-empty name that is not in the registry -32601; no tool
\* function is called in either case.
C15_CallToolNameCheckedEmptyAsAbsent ==
    CallToolRequest =>
        /\ (~NameGiven \/ McpParams.name = "")
              => AnsweredError(JSONRPC_INVALID_PARAMS) /\ tool_calls = <<>>
        /\ (NameGiven /\ McpParams.name # "" /\ ~Registered(McpParams.name))
              => AnsweredError(JSONRPC_METHOD_NOT_FOUND) /\ tool_calls = <<>>

\* C15: a call of a tool that is not registered, with arguments, was
\* refused by a handler that has other tools
C15_Witness ==
    /\ CallToolRequest
    /\ NameGiven
    /\ McpParams.name = "unknown_tool"
    /\ McpParams.has_arguments
    /\ Len(tools) > 0
    /\ AnsweredError(JSONRPC_METHOD_NOT_FOUND)

\* a tools/call message that names a registered tool
RegisteredCall ==
    /\ CallToolRequest
    /\ NameGiven
    /\ McpParams.name # ""
    /\ Registered(McpParams.name)

\* the function registered under the name the message gives
CalledFunction ==
    tools[CHOOSE i \in 1..Len(tools) : tools[i].k = McpParams.name]
        .v.tool_instance.func

\* the arguments the message gives: {} when it gives none
GivenArguments ==
    IF McpParams.has_arguments THEN McpParams.arguments ELSE JsonObject(<<>>)

\* the argument the message gives for the parameter, when it gives one
Given(param) == dict_has(GivenArguments.members, param.name)

\* the call fails at the tool: the arguments are no object, a parameter
\* without default has no argument, an argument cannot be converted to the
\* type of its parameter, or the function raises
ToolFailure ==
    LET params == CalledFunction.parameters IN
    \/ GivenArguments.t # "object"
    \/ \E i \in 1..Len(params) : ~params[i].has_default /\ ~Given(params[i])
    \/ \E i \in 1..Len(params) :
          /\ Given(params[i])
          /\ ~convertible(params[i].annotation,
                          dict_get(GivenArguments.members, params[i].name,
                                   JSON_NULL))
    \/ CalledFunction.raises

\* C16: a tools/call of a registered tool that fails at the tool (missing
\* required argument, argument of the wrong type, exception in the
\* function) is answered with HTTP 200 and a JSON-RPC result carrying
\* isError true and one text content item, never with a JSON-RPC error, and
\* the handler goes on to serve the next request.
C16_ToolFailureIsResult ==
    (RegisteredCall /\ ToolFailure)
        => /\ status = HTTP_OK
           /\ body.kind = "jsonrpc_result"
           /\ body.id = (IF McpMessage.has_id THEN McpMessage.id ELSE "null")
           /\ body.result.isError
           /\ Len(body.result.content) = 1
           /\ body.result.content[1].type = "text"
           /\ body.result.content[1].error # ""
           /\ ~raised
           /\ started = 1
           /\ ENABLED ResponseDone

\* C16: a registered function was called with valid arguments and raised
C16_Witness ==
    /\ RegisteredCall
    /\ CalledFunction.raises
    /\ Len(tool_calls) = 1
    /\ body.result.isError

\* a well-formed message with an id and the method
Request(method) ==
    /\ WellFormed
    /\ McpMessage.has_method
    /\ McpMessage.has_id
    /\ McpMessage.method = method

\* C17: a ping request with id N is answered with HTTP 200 and exactly
\* {jsonrpc: "2.0", id: N, result: {}}, whatever the registry holds and
\* without any tool being called.
C17_PingAnswersEmptyResult ==
    Request("ping")
        => /\ status = HTTP_OK
           /\ body = JsonRpcBody("jsonrpc_result", McpMessage.id, "", 0,
                                 Result("empty", <<>>, <<>>, <<>>, FALSE))
           /\ body.result.tools = <<>>
           /\ tool_calls = <<>>
           /\ ~raised

\* C17: a ping with a string id was answered by a handler that has tools
C17_Witness ==
    /\ Request("ping")
    /\ McpMessage.id = "\"req-1\""
    /\ Len(tools) > 0
    /\ body.kind = "jsonrpc_result"

\* the method is none of the requests and notifications the handler knows
UnknownMethod ==
    /\ WellFormed
    /\ McpMessage.has_method
    /\ McpMessage.has_id
    /\ McpMessage.method \notin RequestMethods \cup NotificationMethods

\* C18: a request whose method is not ping, initialize, tools/list or
\* tools/call, and is no notification, is answered with the JSON-RPC error
\* -32601 carrying the request's id, and no tool is called.
C18_UnknownMethodNotFound ==
    UnknownMethod
        => /\ AnsweredError(JSONRPC_METHOD_NOT_FOUND)
           /\ body.id = McpMessage.id
           /\ body.result = NoResult
           /\ tool_calls = <<>>
           /\ ~raised

\* C18: resources/list with id 7 was answered
C18_Witness ==
    /\ UnknownMethod
    /\ McpMessage.method = "resources/list"
    /\ McpMessage.id = "7"
    /\ body.code = JSONRPC_METHOD_NOT_FOUND

\* the response carries a tool list: it answers tools/list, or an
\* initialize the handler accepted
ToolsListed ==
    /\ WellFormed
    /\ McpMessage.has_method
    /\ McpMessage.method \in {"tools/list", "initialize"}
    /\ body.kind = "jsonrpc_result"
    /\ body.result.tag \in {"tools", "initialize"}

\* the function the handler was constructed with under the name: the last
\* of that name in the list
FunctionNamed(name) ==
    LET last == CHOOSE i \in 1..Len(tool_functions) :
                    /\ tool_functions[i].name = name
                    /\ \A j \in (i + 1)..Len(tool_functions) :
                          tool_functions[j].name # name
    IN  tool_functions[last]

\* the names of the function's parameters of the kind
NamesOfKind(func, kind) ==
    {func.parameters[i].name :
        i \in {j \in 1..Len(func.parameters) : func.parameters[j].kind = kind}}

\* the position of the parameter of that name in the function's signature
Declared(func, name) ==
    CHOOSE i \in 1..Len(func.parameters) : func.parameters[i].name = name

\* the names of the parameters that are not hidden and have no default
RequiredNames(func) ==
    {func.parameters[i].name :
        i \in {j \in 1..Len(func.parameters) :
                  /\ func.parameters[j].kind # KEYWORD_ONLY
                  /\ ~func.parameters[j].has_default}}

\* the schema of a listed tool has no hidden parameter, and requires the
\* visible parameters without default in the order of the signature
SchemaHidesHidden(entry) ==
    LET func == FunctionNamed(entry.name)
        schema == entry.inputSchema
        hidden == NamesOfKind(func, KEYWORD_ONLY)
    IN  /\ schema.type = "object"
        /\ \A i \in 1..Len(schema.properties) :
              schema.properties[i].name \notin hidden
        /\ \A i \in 1..Len(schema.required) : schema.required[i] \notin hidden
        /\ Range(schema.required) = RequiredNames(func)
        /\ \A i, j \in 1..Len(schema.required) :
              i < j => Declared(func, schema.required[i])
                           < Declared(func, schema.required[j])

\* C19: in the tool list of a tools/list or initialize response, no
\* schema has a hidden (keyword-only) parameter among its properties or its
\* required names, and the required names are exactly the parameters that
\* are not hidden and have no default, in the order of declaration.
C19_SchemaHidesHiddenParameters ==
    ToolsListed
        => /\ Len(body.result.tools) = Len(tools)
           /\ \A i \in 1..Len(body.result.tools) :
                 SchemaHidesHidden(body.result.tools[i])

\* C19: tools/list listed a tool that has a hidden parameter and a
\* required one
C19_Witness ==
    /\ ToolsListed
    /\ McpMessage.method = "tools/list"
    /\ \E i \in 1..Len(body.result.tools) :
          LET entry == body.result.tools[i] IN
          /\ NamesOfKind(FunctionNamed(entry.name), KEYWORD_ONLY) # {}
          /\ Len(entry.inputSchema.required) > 0
          /\ Len(entry.inputSchema.properties) > 0

\* the function has a parameter without a declared type, or a hidden
\* parameter without a default
Faulty(func) ==
    \E i \in 1..Len(func.parameters) :
       \/ func.parameters[i].annotation = ""
       \/ /\ func.parameters[i].kind = KEYWORD_ONLY
          /\ ~func.parameters[i].has_default

\* C20: a handler given a function that has a parameter without a declared
\* type, or a hidden parameter without a default, fails in its
\* construction: it has no registry and serves no request, and no registry
\* ever holds a tool made of such a function.
C20_FaultyFunctionFailsConstruction ==
    /\ (/\ pc # "new"
        /\ \E i \in 1..Len(tool_functions) : Faulty(tool_functions[i]))
           => /\ pc = "failed"
              /\ tools = <<>>
              /\ tool_calls = <<>>
              /\ calls = <<>>
    /\ \A i \in 1..Len(tools) : ~Faulty(tools[i].v.tool_instance.func)
    /\ pc \in {"idle", "responded"}
           => \A i \in 1..Len(tool_functions) :
                 /\ ~Faulty(tool_functions[i])
                 /\ dict_has(tools, tool_functions[i].name)

\* C20: the construction failed on the second function of the list, after
\* the first had been accepted
C20_Witness ==
    /\ pc = "failed"
    /\ Len(tool_functions) = 2
    /\ ~Faulty(tool_functions[1])
    /\ Faulty(tool_functions[2])
    /\ tools = <<>>

\* the tool registered under the name the message gives
CalledTool ==
    dict_get(tools, McpParams.name, tools[1].v).tool_instance

\* the names of the hidden parameters of the called function
HiddenNames == NamesOfKind(CalledFunction, KEYWORD_ONLY)

\* two arguments maps that differ only in keys naming hidden parameters
DifferOnlyInHidden(a, b) ==
    /\ a.t = "object"
    /\ b.t = "object"
    /\ \A k \in ({a.members[i].k : i \in 1..Len(a.members)}
                 \cup {b.members[i].k : i \in 1..Len(b.members)})
                \ HiddenNames :
          /\ dict_has(a.members, k) = dict_has(b.members, k)
          /\ dict_get(a.members, k, JSON_NULL)
                = dict_get(b.members, k, JSON_NULL)

\* the argument the function was called with for the parameter
Passed(call, name) ==
    call.kwargs[CHOOSE i \in 1..Len(call.kwargs) :
                    call.kwargs[i].name = name].value

\* C21: in a tools/call every hidden parameter reaches the function with
\* its declared default, and a call whose arguments differ from this one
\* only in keys naming hidden parameters calls the function with the same
\* arguments and has the same result.
C21_HiddenParametersGetDefaults ==
    RegisteredCall
        => /\ \A c \in 1..Len(tool_calls) :
              \A i \in 1..Len(CalledFunction.parameters) :
                 LET param == CalledFunction.parameters[i] IN
                 param.kind = KEYWORD_ONLY
                     => Passed(tool_calls[c], param.name) = param.default
           /\ \A other \in ArgumentValues :
                 DifferOnlyInHidden(GivenArguments, other)
                     => LET result == validate_and_call(CalledTool, other)
                        IN  /\ result.called = tool_calls
                            /\ TextContent(result) = body.result.content[1]

\* the arguments have a key that names no parameter of the called function
ExtraKey ==
    /\ GivenArguments.t = "object"
    /\ \E i \in 1..Len(GivenArguments.members) :
          \A j \in 1..Len(CalledFunction.parameters) :
             CalledFunction.parameters[j].name # GivenArguments.members[i].k

\* C22: a tools/call whose arguments have a key that is no declared
\* parameter of the tool is answered with a result carrying isError true,
\* the validation error, and the function is not called.
C22_ExtraKeyRejected ==
    (RegisteredCall /\ ExtraKey)
        => /\ body.kind = "jsonrpc_result"
           /\ body.result.isError
           /\ body.result.content[1].error = "Invalid arguments"
           /\ tool_calls = <<>>

\* the text has the part in it
in_text(part, text) ==
    \E i \in 1..(Len(text) - Len(part) + 1) :
        SubSeq(text, i, i + Len(part) - 1) = part

\* project_eval has returned after its wait for the output timed out
ReturnedTimedOut == eval_pc = "returned" /\ eval_timed_out

\* C23: when the timeout expires without an output of the evaluated code,
\* project_eval reports success false, a result and an error message that
\* contain "timed out", and empty stdout and stderr; the child has exited
\* and has been joined when project_eval returns.
C23_TimeoutReported ==
    ReturnedTimedOut
        => /\ ~eval_outcome.success
           /\ in_text(TEXT_TIMED_OUT, eval_outcome.result)
           /\ eval_outcome.has_error
           /\ in_text(TEXT_TIMED_OUT, eval_outcome.error)
           /\ eval_outcome.stdout = <<>>
           /\ eval_outcome.stderr = <<>>
           /\ IF eval_args.json
              THEN /\ eval_response.format = "json"
                   /\ eval_response.members = eval_outcome
              ELSE /\ eval_response.format = "text"
                   /\ in_text(TEXT_TIMED_OUT, eval_response.text)
           /\ process.state = "exited"
           /\ process.joined

\* C23: a call with json set returned after the timeout, the child having
\* been killed by the SIGTERM
C23_Witness ==
    /\ ReturnedTimedOut
    /\ eval_args.json
    /\ eval_args.timeout = 1500
    /\ process.exitcode = SIGTERM_EXITCODE
    /\ ~process.delivered

\* C24: when a timed-out evaluation has returned, no process started for
\* it is running: neither the child nor a process the evaluated code
\* started.
C24_NoProcessLeftAfterTimeout ==
    ReturnedTimedOut => (process.state = "exited" /\ descendants = 0)

\* C25: every project_eval call returns, whatever the child does.
C25_ProjectEvalReturns ==
    (eval_pc = "get") ~> (eval_pc = "returned")

\* the fields of a chunk as a reader of the stream takes them
ChunkType(chunk) == chunk[1]
ChunkLength(chunk) ==
    chunk[2] * 16777216 + chunk[3] * 65536 + chunk[4] * 256 + chunk[5]
ChunkPayload(chunk) == SubSeq(chunk, 6, Len(chunk))

\* one type byte, 0 or 1, a four-byte length, and that many bytes
WellFramed(chunk) ==
    /\ Len(chunk) >= 5
    /\ ChunkType(chunk) \in {0, 1}
    /\ \A i \in 1..Len(chunk) : chunk[i] \in 0..255
    /\ ChunkLength(chunk) = Len(chunk) - 5

\* the number written in decimal by the bytes, an optional "-" first
RECURSIVE DecimalOf(_)
DecimalOf(bytes) ==
    IF Len(bytes) = 0 THEN 0
    ELSE IF bytes[1] = 45 THEN 0 - DecimalOf(Tail(bytes))
    ELSE DecimalOf(SubSeq(bytes, 1, Len(bytes) - 1)) * 10
             + (bytes[Len(bytes)] - 48)

\* the payload is the JSON text {"status": n}
IsStatusPayload(payload, n) ==
    /\ Len(payload) >= 13
    /\ SubSeq(payload, 1, 11)
          = <<123, 34, 115, 116, 97, 116, 117, 115, 34, 58, 32>>
    /\ payload[Len(payload)] = 125
    /\ DecimalOf(SubSeq(payload, 12, Len(payload) - 1)) = n

\* the server has pulled every chunk and the generator has returned
Drained == gen_pc = "finished"

\* the command the request gave
ShellCommand == environ.wsgi_input.command

\* C26: a drained chunk stream is data chunks (type 0) followed by one
\* status chunk (type 1), the last; every chunk is a type byte, the
\* big-endian four-byte length of the payload, and the payload; and when
\* the command ran, the status payload is {"status": e} with e the exit
\* code of the child.
C26_StreamFramedAndEndsWithExitStatus ==
    Drained
        => /\ Len(chunks) >= 1
           /\ \A i \in 1..Len(chunks) :
                 /\ WellFramed(chunks[i])
                 /\ (ChunkType(chunks[i]) = 1) <=> (i = Len(chunks))
           /\ popen.state # "none"
                 => /\ popen.state = "exited"
                    /\ IsStatusPayload(ChunkPayload(chunks[Len(chunks)]),
                                       popen.exit_status)

\* C27: when the process of the command cannot be started the drained
\* stream is one chunk, the status chunk with 213; and a 213 status sent by
\* the except branch is never preceded by a data chunk.
C27_StartFailureIsOnlyStatus213 ==
    /\ (Drained /\ ~popen_starts(ShellCommand))
           => /\ Len(chunks) = 1
              /\ WellFramed(chunks[1])
              /\ ChunkType(chunks[1]) = 1
              /\ IsStatusPayload(ChunkPayload(chunks[1]), ERROR_STATUS)
              /\ popen.state = "none"
              /\ spawned = 0
    /\ gen_raised
           => /\ \A i \in 1..Len(chunks) : ChunkType(chunks[i]) # 0
              /\ IsStatusPayload(ChunkPayload(chunks[Len(chunks)]),
                                 ERROR_STATUS)

\* C27: the stream of a list command naming no program was drained
C27_Witness ==
    /\ Drained
    /\ ShellCommand.t = "array"
    /\ ~popen_starts(ShellCommand)
    /\ gen_raised
    /\ Len(chunks) = 1

\* C28: however the chunk stream ends (drained, ended by an error, or
\* abandoned by the consumer), the child started for the request has exited
\* and has been reaped.
C28_ChildReapedWhenStreamEnds ==
    gen_pc \in {"finished", "closed"}
        => \/ popen.state = "none"
           \/ popen.state = "exited" /\ popen.reaped

\* the body of the request is no well-formed command: it is empty, no
\* JSON, no JSON object, or its command is missing, empty, or neither a
\* string nor a list of strings
MalformedShellBody ==
    LET doc == environ.wsgi_input IN
    \/ doc.len = 0
    \/ ~doc.is_json
    \/ ~doc.is_object
    \/ ~ \/ doc.command.t = "string" /\ doc.command.v # ""
         \/ /\ doc.command.t = "array"
            /\ Len(doc.command.members) > 0
            /\ \A i \in 1..Len(doc.command.members) :
                  doc.command.members[i].t = "string"

\* C29: a POST /shell with a malformed body is answered 400, start_response
\* being called once and no child process started; only a well-formed body
\* is answered 200 with the chunk stream.
C29_MalformedShellBodyRejected ==
    (pc = "responded" /\ Head(calls) = "_handle_shell_command")
        => IF MalformedShellBody
           THEN /\ status = HTTP_BAD_REQUEST
                /\ started = 1
                /\ spawned = 0
                /\ gen_pc = "none"
           ELSE /\ status = HTTP_OK
                /\ started = 1
                /\ body.kind = "chunks"

\* C30: modify_csp is idempotent: passing its result through it again gives
\* the same header value, for every header value.
C30_ModifyCspIdempotent ==
    Len(csp_history) >= 3 => csp_history[3] = csp_history[2]

\* C30: a value naming frame-ancestors and a script-src without
\* 'unsafe-eval' was rewritten, and its result passed through again
C30_Witness ==
    /\ Len(csp_history) = 3
    /\ csp_history[1] = FRAME_ANCESTORS_MIXED \o <<";">> \o SCRIPT_SRC_MIXED
    /\ csp_history[2] = SCRIPT_SRC \o <<" ">> \o UNSAFE_EVAL

\* the directives of a header value as a reader of the policy takes them:
\* the non-empty pieces between ";", each a name ended by whitespace and
\* the sources after it
PolicyParts(value) ==
    LET raw == split(value, ";")
        stripped == [i \in 1..Len(raw) |-> strip(raw[i])]
    IN  SelectSeq(stripped, LAMBDA part : Len(part) > 0)

NameEnd(part) ==
    LET ws == {i \in 1..Len(part) : part[i] \in WHITESPACE} IN
    IF ws = {} THEN Len(part) + 1
    ELSE CHOOSE i \in ws : \A j \in ws : i <= j

\* directive names are compared without regard to letter case
DirectiveName(part) == lower(SubSeq(part, 1, NameEnd(part) - 1))
DirectiveText(part) == strip(SubSeq(part, NameEnd(part), Len(part)))
DirectiveSources(part) == split_whitespace(DirectiveText(part))

HasSource(part, source) ==
    \E i \in 1..Len(DirectiveSources(part)) : DirectiveSources(part)[i] = source

DirectivesNamed(value, name) ==
    SelectSeq(PolicyParts(value), LAMBDA part : DirectiveName(part) = name)

\* value.count("'unsafe-eval'")
UnsafeEvalCount(value) ==
    Cardinality({i \in 1..Len(value) :
                    /\ i + Len(UNSAFE_EVAL) - 1 <= Len(value)
                    /\ SubSeq(value, i, i + Len(UNSAFE_EVAL) - 1) = UNSAFE_EVAL})

CspRewritten == Len(csp_history) >= 2
CspInput == csp_history[1]
CspOutput == csp_history[2]

\* C31: the output of modify_csp has a script-src directive listing
\* 'unsafe-eval'; when the script-src of the input lists it already none is
\* added, the number of occurrences staying the same; when the input has no
\* script-src, the directive script-src 'unsafe-eval' is added.
C31_ScriptSrcHasUnsafeEval ==
    CspRewritten
        => LET inputs == DirectivesNamed(CspInput, SCRIPT_SRC)
               outputs == DirectivesNamed(CspOutput, SCRIPT_SRC)
           IN  /\ \E i \in 1..Len(outputs) : HasSource(outputs[i], UNSAFE_EVAL)
               /\ (\E i \in 1..Len(inputs) : HasSource(inputs[i], UNSAFE_EVAL))
                     => UnsafeEvalCount(CspOutput) = UnsafeEvalCount(CspInput)
               /\ Len(inputs) = 0
                     => /\ Len(outputs) = 1
                        /\ DirectiveSources(outputs[1]) = <<UNSAFE_EVAL>>

\* the directives of a value other than script-src and frame-ancestors, in
\* order, each as its name and the text of its source list
OtherDirectives(value) ==
    LET kept == SelectSeq(PolicyParts(value),
                          LAMBDA part : DirectiveName(part)
                                            \notin {SCRIPT_SRC, FRAME_ANCESTORS})
    IN  [i \in 1..Len(kept) |->
            [name |-> DirectiveName(kept[i]), text |-> DirectiveText(kept[i])]]

\* C32: the output of modify_csp has no frame-ancestors directive, in any
\* letter case, and every input directive other than script-src and
\* frame-ancestors is in the output with the same source-list text and in
\* the same relative order, repeated directive names included.
C32_FrameAncestorsDroppedOthersKept ==
    CspRewritten
        => /\ Len(DirectivesNamed(CspOutput, FRAME_ANCESTORS)) = 0
           /\ OtherDirectives(CspOutput) = OtherDirectives(CspInput)

\* the registry MCPHandler.__init__ built from the functions
BuiltRegistry == _init_tools(tool_functions, <<>>).tools

\* the handler exists
HandlerConstructed == pc \in {"idle", "responded"}

\* a tools/list request was answered with a result
ToolListAnswered ==
    /\ WellFormed
    /\ McpMessage.has_method
    /\ McpMessage.has_id
    /\ McpMessage.method = "tools/list"
    /\ body.kind = "jsonrpc_result"

C34_HiddenParameterValuePassed ==
    RegisteredCall
        => \A c \in 1..Len(tool_calls) :
           \A i \in 1..Len(CalledFunction.parameters) :
              LET param == CalledFunction.parameters[i] IN
              param.kind = KEYWORD_ONLY
                  => Passed(tool_calls[c], param.name)
                        = IF Given(param)
                          THEN dict_get(GivenArguments.members, param.name,
                                        JSON_NULL)
                          ELSE param.default

\* C34: get_logs was called with the grep the arguments gave
C34_Witness ==
    /\ RegisteredCall
    /\ McpParams.name = "get_logs"
    /\ Len(tool_calls) = 1
    /\ dict_has(GivenArguments.members, "grep")
    /\ Passed(tool_calls[1], "grep") = JsonString("error", FALSE)
    /\ Passed(tool_calls[1], "grep") # CalledFunction.parameters[2].default

\* no two entries of the sequence have the same name
UniqueNames(names) ==
    \A i, j \in 1..Len(names) : names[i] = names[j] => i = j

\* C35: a constructed handler has one tool for each distinct name among its
\* functions, the tool of the last function of that name, and a tools/list
\* answer never has two entries of one name; a name given twice is no
\* error: construction fails only on a faulty function.
C35_OneToolPerName ==
    /\ HandlerConstructed
          => /\ UniqueNames([i \in 1..Len(tools) |-> tools[i].k])
             /\ {tools[i].k : i \in 1..Len(tools)}
                   = {tool_functions[i].name : i \in 1..Len(tool_functions)}
             /\ \A i \in 1..Len(tools) :
                   /\ tools[i].v.name = tools[i].k
                   /\ tools[i].v.tool_instance.func = FunctionNamed(tools[i].k)
             /\ ToolListAnswered
                   => UniqueNames([i \in 1..Len(body.result.tools) |->
                                      body.result.tools[i].name])
    /\ pc = "failed"
          => \E i \in 1..Len(tool_functions) : Faulty(tool_functions[i])

\* C35: a handler constructed with two different functions named add
\* answered tools/list with the one tool of the later function
C35_Witness ==
    /\ ToolListAnswered
    /\ tool_functions = <<FUNC_ADD, FUNC_ADD_INTS>>
    /\ Len(tools) = 1
    /\ tools[1].v.tool_instance.func = FUNC_ADD_INTS
    /\ Len(body.result.tools) = 1
    /\ body.result.tools[1].description.text = "Add two integers."

\* the payloads of the data chunks of the stream, one after the other
RECURSIVE DataOf(_)
DataOf(stream) ==
    IF Len(stream) = 0 THEN <<>>
    ELSE (IF ChunkType(stream[1]) = 0 THEN ChunkPayload(stream[1]) ELSE <<>>)
             \o DataOf(Tail(stream))

\* C36: when a stream is drained and its command has exited, the payloads
\* of the data chunks, in order, are the bytes the command wrote before it
\* exited, however its writes and its exit fall between the steps of the
\* loop (a select timeout followed by the exit check).
C36_NoOutputDropped ==
    (Drained /\ popen.state = "exited" /\ ~gen_raised)
        => DataOf(chunks) = popen.written

\* the address of the request fails the IP check
FailsIpCheck ==
    ~config.allow_remote_access /\ ~IsLocalAddress(environ.REMOTE_ADDR)

\* the Origin header of the request fails the origin check: its host
\* cannot be parsed, or no pattern of a non-empty allowed_origins accepts
\* it, or allowed_origins is not configured and the host is not local
FailsOriginCheck ==
    /\ CarriesOrigin
    /\ \/ ParsedOrigin.kind # "host"
       \/ /\ config.has_allowed_origins
          /\ Len(config.allowed_origins) > 0
          /\ \A i \in 1..Len(config.allowed_origins) :
                ~PatternAccepts(config.allowed_origins[i],
                                ParsedOrigin.hostname)
       \/ /\ ~config.has_allowed_origins
          /\ ~IsLocalOriginHost(ParsedOrigin.hostname)

\* C37: the security gate is evaluated before routing and before any check
\* of the method or the body: a request under the prefix that fails the IP
\* check or the origin check is answered 403 by the gate, whatever its
\* method and body (never 405, 400 or a JSON-RPC error), nothing behind the
\* gate running; and a request that fails the IP check gets the answer of
\* the IP check, whatever its Origin header.
C37_GateBeforeRouting ==
    (Responded /\ UnderPrefix /\ (FailsIpCheck \/ FailsOriginCheck))
        => /\ status = HTTP_FORBIDDEN
           /\ NothingInvoked
           /\ FailsIpCheck => RejectedAs("remote")

\* the CONTENT_LENGTH of the request is not the decimal text of an integer
NonIntegerContentLength ==
    /\ environ.has_content_length
    /\ \/ Len(environ.CONTENT_LENGTH) = 0
       \/ \E i \in 1..Len(environ.CONTENT_LENGTH) :
              environ.CONTENT_LENGTH[i] \notin ASCII_DIGITS

\* the message is well formed and the handler of its method reads a member
\* of params that the message does not give as it must: params is not an
\* object, the protocolVersion of an initialize is not a string, or the
\* name of a tools/call cannot be hashed
ParamsFault ==
    /\ WellFormed
    /\ McpMessage.has_method
    /\ \/ /\ McpMessage.method \in {"initialize", "tools/call"}
          /\ McpParams.kind = "array"
       \/ /\ McpMessage.method = "initialize"
          /\ McpParams.kind = "object"
          /\ McpParams.has_protocolVersion
          /\ McpParams.protocolVersion_type # "str"
       \/ /\ McpMessage.method = "tools/call"
          /\ McpParams.kind = "object"
          /\ McpParams.has_name
          /\ McpParams.name_type = "list"

\* C38: whatever the request body and CONTENT_LENGTH, handle_request calls
\* start_response exactly once and returns a JSON body, and no exception
\* leaves it; a fault inside it (a CONTENT_LENGTH that is not an integer,
\* params that is not an object where the method reads it, a
\* protocolVersion that is not a string, a tool name that cannot be
\* hashed) is answered with the JSON-RPC error -32603.
C38_FaultsAnsweredInternalError ==
    McpResponded =>
        /\ started = 1
        /\ ~raised
        /\ status \in {HTTP_OK, HTTP_ACCEPTED}
        /\ JsonRpcAnswer \/ Acknowledged
        /\ (NonIntegerContentLength \/ ParamsFault)
              => AnsweredError(JSONRPC_INTERNAL_ERROR)

\* C38: a tools/call whose name is a list was answered -32603 through one
\* call of start_response
C38_Witness ==
    /\ McpResponded
    /\ ParamsFault
    /\ McpMessage.method = "tools/call"
    /\ McpParams.name_type = "list"
    /\ started = 1
    /\ AnsweredError(JSONRPC_INTERNAL_ERROR)

\* the message is a JSON-RPC 2.0 request: it has a method and an id
McpRequest ==
    /\ Parsed
    /\ McpMessage.is_object
    /\ McpMessage.jsonrpc = "2.0"
    /\ McpMessage.has_method
    /\ McpMessage.has_id

\* C39: a well-formed request (jsonrpc "2.0", a method and an id) is
\* answered with HTTP 200 and a JSON-RPC body that has exactly one of
\* result and error, whatever its method name; it is never answered with
\* the 202 acceptance of a notification.
C39_RequestAnsweredWithResultOrError ==
    McpRequest =>
        /\ status = HTTP_OK
        /\ ~Acknowledged
        /\ \/ body.kind = "jsonrpc_result" /\ body.result # NoResult
           \/ body.kind = "jsonrpc_error" /\ body.result = NoResult

\* the headers of the list, in order, that are neither a framing
\* restriction nor a Content-Security-Policy
OtherHeaders(headers) ==
    SelectSeq(headers,
              LAMBDA h : FoldedName(h.k) \notin
                            {"x-frame-options", "content-security-policy"})

\* C40: the header rewriting of a pass-through response changes nothing
\* but the framing-restriction header and the Content-Security-Policy
\* value: every other header of the host response reaches the client with
\* its name and value, as many times as the host sent it (several
\* Set-Cookie headers, for example) and in the same relative order.
C40_OtherHeadersUntouched ==
    PassedThrough => OtherHeaders(resp_headers) = OtherHeaders(host_headers)


===========================================================================
